---- MODULE Spec2Model ----
(***************************************************************************)
(* Model of the protocol/trust core of the Gemini client:                  *)
(*   - the TOFU verifier (trust store, in-memory map + known-hosts file),  *)
(*   - the protocol client's Get with its redirect recursion,              *)
(*   - the response header decoder and the status classifier,              *)
(*   - goroutines calling one verifier concurrently, with its RWMutex.     *)
(***************************************************************************)
EXTENDS Integers, Sequences, FiniteSets, TLC

VARIABLES
    knownHosts,     \* v.knownHosts.Hosts: hostname -> CertificateInfo
    file,           \* the known-hosts file at v.filePath
    verifier,       \* "ok": a *TOFUVerifier exists; "nil": NewTOFUVerifier failed
    clock,          \* number of time.Now() readings taken by VerifyCertificate
    OnFirstSeen,    \* v.OnFirstSeen:         "nil" or "set"
    OnCertificateChange, \* v.OnCertificateChange: "nil" or "set"
    call,           \* the most recent trust-store call and the branch it took
    ret,            \* what that call returned
    TOFU,           \* c.TOFU: "nil" or "set"
    FollowRedirects, \* c.FollowRedirects
    cMaxRedirects,  \* c.MaxRedirects
    pc,             \* where the running Get is: idle, dial, verify, send, read, done
    rawURL,         \* the URL of the current get frame
    redirectCount,  \* the redirectCount of the current get frame
    conns,          \* the connections this Get has dialled, in order
    responses,      \* the status codes this Get has read, in order
    received,       \* the header the server sent last: status and meta as on the wire
    firstURL,       \* history: the URL the caller gave to Get (kept by SpecChain only)
    resp,           \* the *Response Get returned
    err,            \* the error Get returned
    body,           \* what the caller did with resp.Body: closed it, drained it
    line,           \* the bytes of a header line handed to the decoder
    header,         \* what the decoder returned for line
    statusCode,     \* a StatusCode handed to the classifier
    class,          \* what Category() and the Is...() predicates returned for it
    mu,             \* v.mu: the goroutine holding the write lock, those holding read locks
    thr,            \* the goroutines calling the verifier concurrently
    doc,            \* the *Document Parse is building
    inPreformat,    \* Parse's inPreformat
    preformatAltText, \* Parse's preformatAltText
    model,          \* the ui.Model the Bubble Tea program holds
    cmds,           \* the page loads in flight: commands started and not yet answered
    evalOrder,      \* how the build orders the operands of "return m, m.loadURL(url)"
    user,           \* history: the user's last moves (page X, then page Y, then Back)
    race            \* history: the two loads that were in flight together, if any

storeVars == <<knownHosts, file, verifier, clock, OnFirstSeen,
               OnCertificateChange, call, ret>>

clientVars == <<TOFU, FollowRedirects, cMaxRedirects, body, pc, rawURL, redirectCount,
                conns, responses, received, firstURL, resp, err>>

headerVars == <<line, header>>

statusVars == <<statusCode, class>>

concVars == <<mu, thr>>

parserVars == <<doc, inPreformat, preformatAltText>>

browserVars == <<model, cmds, evalOrder, user, race>>

\* what the operations of each part leave alone
outsideStore == <<clientVars, headerVars, statusVars, concVars, parserVars, browserVars>>
outsideClient == <<headerVars, statusVars, concVars, parserVars, browserVars, firstURL>>
outsideChain == <<headerVars, statusVars, concVars, parserVars, browserVars>>
outsideDecoder == <<storeVars, clientVars, statusVars, concVars, parserVars, browserVars>>
outsideStatus == <<storeVars, clientVars, headerVars, concVars, parserVars, browserVars>>
outsideParser == <<storeVars, clientVars, headerVars, statusVars, concVars, browserVars>>
outsideBrowser == <<storeVars, clientVars, headerVars, statusVars, concVars, parserVars>>

vars == <<storeVars, clientVars, headerVars, statusVars, concVars, parserVars,
         browserVars>>

----------------------------------------------------------------------------
(* Bounds *)

\* wall-clock readings range over 1..MaxClock
MaxClock == 3

Hostnames == {"a.example", "b.example"}
Fingerprints == {"f1", "f2"}
NoCert == "nocert"          \* len(state.PeerCertificates) == 0

----------------------------------------------------------------------------
(* Trust levels *)

TrustPermanent == "permanent"
TrustSession == "session"
TrustOnce == "once"
TrustLevel == {TrustPermanent, TrustSession, TrustOnce}

(* Error values *)
Nil == "nil"
ErrNoPeerCertificates == "no peer certificates"
ErrRejectedByUser == "certificate rejected by user"
ErrChangedRejected == "certificate changed and was rejected"
ErrSave == "failed to save known hosts"
ErrLoad == "failed to load known hosts"
ErrIO == "io error"

----------------------------------------------------------------------------
(* time.Time: a wall-clock instant plus, for values from time.Now(), a     *)
(* monotonic reading.  The JSON form (RFC 3339) keeps the wall instant.    *)

\* time.Now(): successive readings never go back (capped at MaxClock)
Tick(t) == IF t < MaxClock THEN t + 1 ELSE t

Now(t) == [wall |-> t, mono |-> TRUE]
MarshalTime(t) == t.wall
UnmarshalTime(w) == [wall |-> w, mono |-> FALSE]

(* CertificateInfo <-> its JSON object *)
MarshalInfo(info) ==
    [fingerprint |-> info.Fingerprint,
     first_seen  |-> MarshalTime(info.FirstSeen),
     last_seen   |-> MarshalTime(info.LastSeen),
     trust       |-> info.Trust]

\* faulty variant: the trust disposition of the file is not read back
UnmarshalInfo_NoTrust(j) ==
    [Fingerprint |-> j.fingerprint,
     FirstSeen   |-> UnmarshalTime(j.first_seen),
     LastSeen    |-> UnmarshalTime(j.last_seen),
     Trust       |-> TrustPermanent]

UnmarshalInfo(j) ==
    [Fingerprint |-> j.fingerprint,
     FirstSeen   |-> UnmarshalTime(j.first_seen),
     LastSeen    |-> UnmarshalTime(j.last_seen),
     Trust       |-> j.trust]

EmptyHosts == [h \in {} |-> 0]

(* json.MarshalIndent(v.knownHosts): the whole map, every call *)
MarshalIndent(hosts) == [h \in DOMAIN hosts |-> MarshalInfo(hosts[h])]

(* json.Unmarshal into the verifier's (empty) map *)
Unmarshal(j) == [h \in DOMAIN j |-> UnmarshalInfo(j[h])]

(* File contents: missing, a complete JSON document, or a torn one *)
FileMissing == [kind |-> "missing", hosts |-> EmptyHosts]
FileTorn == [kind |-> "torn", hosts |-> EmptyHosts]
FileJSON(data) == [kind |-> "json", hosts |-> data]

(* os.WriteFile(path, data): opens with O_TRUNC and writes.  It either     *)
(* completes, fails before the file is touched (MkdirAll or open fails),   *)
(* or fails after truncation leaving a short file.                         *)
WriteOutcomes == {"ok", "untouched", "torn"}

WriteFile(old, data, outcome) ==
    CASE outcome = "ok" -> FileJSON(data)
      [] outcome = "untouched" -> old
      [] outcome = "torn" -> FileTorn

\* faulty variant: the map is marshalled as it was before the mutation
saveData_Stale(hosts) == MarshalIndent(knownHosts)

(* save(): marshal the current map and write it; returns the error *)
saveData(hosts) == MarshalIndent(hosts)
saveFile(hosts, outcome) == WriteFile(file, saveData(hosts), outcome)
saveErr(outcome) == IF outcome = "ok" THEN Nil ELSE ErrIO

----------------------------------------------------------------------------
(* Decision policies *)

\* faulty variant: first use defaults to a session-only acceptance
DefaultFirstSeen_Session == [accept |-> TRUE, trustLevel |-> TrustSession]

\* lines 118-122: default accept/Permanent, or whatever the hook returns
DefaultFirstSeen == [accept |-> TRUE, trustLevel |-> TrustPermanent]
\* faulty variant: a changed certificate is accepted by default (fail open)
DefaultCertificateChange_FailOpen == [accept |-> TRUE, trustLevel |-> TrustOnce]

\* lines 142-146: default reject/Once, or whatever the hook returns
DefaultCertificateChange == [accept |-> FALSE, trustLevel |-> TrustOnce]

\* what a hook can answer; the trust level of a refusal is never read
HookAnswers ==
    {[accept |-> FALSE, trustLevel |-> TrustOnce]}
        \cup [accept : {TRUE}, trustLevel : TrustLevel]

FirstSeenDecisions ==
    IF OnFirstSeen # Nil THEN HookAnswers ELSE {DefaultFirstSeen}

CertificateChangeDecisions ==
    IF OnCertificateChange # Nil THEN HookAnswers ELSE {DefaultCertificateChange}

\* What the model remembers of the most recent call: the operation and its
\* arguments, the branch taken, the hook invoked and its answer, and how the
\* file write ended ("none": save() was not called).
Call(op, hostname, cert, path, hook, d, save) ==
    [op |-> op, hostname |-> hostname, cert |-> cert, path |-> path,
     hook |-> hook, accept |-> d.accept, trustLevel |-> d.trustLevel,
     save |-> save]

NoDecision == [accept |-> FALSE, trustLevel |-> ""]
NoCall == Call("none", "", "", "none", "none", NoDecision, "none")

Put(hosts, hostname, info) ==
    [h \in DOMAIN hosts \cup {hostname} |->
        IF h = hostname THEN info ELSE hosts[h]]

\* faulty variant: the record stays in the map
Delete_Kept(hosts, hostname) == hosts

Delete(hosts, hostname) == [h \in DOMAIN hosts \ {hostname} |-> hosts[h]]

----------------------------------------------------------------------------
(* VerifyCertificate, branch by branch *)

\* faulty variant: the store is saved before the certificate list is looked at
VerifyNoPeer_Saved(hostname) ==
    /\ call' = Call("Verify", hostname, NoCert, "nopeer", "none", NoDecision, "ok")
    /\ ret' = ErrNoPeerCertificates
    /\ file' = saveFile(knownHosts, "ok")
    /\ UNCHANGED <<knownHosts, clock>>

\* lines 95-97
VerifyNoPeer(hostname) ==
    /\ call' = Call("Verify", hostname, NoCert, "nopeer", "none", NoDecision, "none")
    /\ ret' = ErrNoPeerCertificates
    /\ UNCHANGED <<knownHosts, file, clock>>

\* the record built at lines 102-109
NewInfo(cert, t) ==
    [Fingerprint |-> cert, FirstSeen |-> Now(t), LastSeen |-> Now(t),
     Trust |-> TrustPermanent]

\* line 128
FirstSeenInfo(info, trustLevel) == [info EXCEPT !.Trust = trustLevel]

\* faulty variant: the candidate record is stored before the hook's answer is checked
FirstSeenRejected_Stored(hostname, cert, d) ==
    /\ call' = Call("Verify", hostname, cert, "first",
                    IF OnFirstSeen # Nil THEN "OnFirstSeen" ELSE "none", d, "none")
    /\ ret' = ErrRejectedByUser
    /\ knownHosts' = Put(knownHosts, hostname, NewInfo(cert, Tick(clock)))
    /\ UNCHANGED file

\* lines 124-126
FirstSeenRejected(hostname, cert, d) ==
    /\ call' = Call("Verify", hostname, cert, "first",
                    IF OnFirstSeen # Nil THEN "OnFirstSeen" ELSE "none", d, "none")
    /\ ret' = ErrRejectedByUser
    /\ UNCHANGED <<knownHosts, file>>

\* lines 132-136 and 157-161
StoreErr(outcome) == IF saveErr(outcome) # Nil THEN ErrSave ELSE Nil

\* lines 116-137
VerifyFirstSeen(hostname, cert, info) ==
    \E d \in FirstSeenDecisions :
        IF ~d.accept
        THEN FirstSeenRejected(hostname, cert, d)
        ELSE \E outcome \in WriteOutcomes :
             LET hosts == Put(knownHosts, hostname, FirstSeenInfo(info, d.trustLevel)) IN
             /\ knownHosts' = hosts
             /\ file' = saveFile(hosts, outcome)
             /\ call' = Call("Verify", hostname, cert, "first",
                             IF OnFirstSeen # Nil THEN "OnFirstSeen" ELSE "none",
                             d, outcome)
             /\ ret' = StoreErr(outcome)

\* faulty variant: firstSeen is not carried over from the old record
ChangedInfo_FreshFirstSeen(known, info, trustLevel) ==
    [info EXCEPT !.Trust = trustLevel]

\* lines 152-153
ChangedInfo(known, info, trustLevel) ==
    [info EXCEPT !.FirstSeen = known.FirstSeen, !.Trust = trustLevel]

\* lines 140-162
VerifyChanged(hostname, cert, info) ==
    \E d \in CertificateChangeDecisions :
        LET hook == IF OnCertificateChange # Nil THEN "OnCertificateChange" ELSE "none" IN
        IF ~d.accept
        THEN /\ call' = Call("Verify", hostname, cert, "changed", hook, d, "none")
             /\ ret' = ErrChangedRejected
             /\ UNCHANGED <<knownHosts, file>>
        ELSE \E outcome \in WriteOutcomes :
             LET hosts == Put(knownHosts, hostname,
                              ChangedInfo(knownHosts[hostname], info, d.trustLevel)) IN
             /\ knownHosts' = hosts
             /\ file' = saveFile(hosts, outcome)
             /\ call' = Call("Verify", hostname, cert, "changed", hook, d, outcome)
             /\ ret' = StoreErr(outcome)

\* faulty variant: a match also resets the trust disposition
MatchInfo_ResetTrust(known, t) ==
    [known EXCEPT !.LastSeen = Now(t), !.Trust = TrustPermanent]

\* line 165
MatchInfo(known, t) == [known EXCEPT !.LastSeen = Now(t)]

\* faulty variant: the error of save() is returned on the match path too
MatchErr_Propagated(outcome) == IF saveErr(outcome) # Nil THEN ErrSave ELSE Nil

\* lines 168-174: the error of save() is dropped
MatchErr(outcome) == Nil

\* lines 164-174
VerifyMatch(hostname, cert, t) ==
    \E outcome \in WriteOutcomes :
        LET hosts == [knownHosts EXCEPT ![hostname] = MatchInfo(@, t)] IN
        /\ knownHosts' = hosts
        /\ file' = saveFile(hosts, outcome)
        /\ call' = Call("Verify", hostname, cert, "match", "none", NoDecision, outcome)
        /\ ret' = MatchErr(outcome)

\* lines 94-175
VerifyCertificate(hostname, cert) ==
    /\ verifier = "ok"
    /\ IF cert = NoCert
       THEN VerifyNoPeer(hostname)
       ELSE /\ clock' = Tick(clock)
            /\ LET info == NewInfo(cert, Tick(clock)) IN
               IF hostname \notin DOMAIN knownHosts
               THEN VerifyFirstSeen(hostname, cert, info)
               ELSE IF knownHosts[hostname].Fingerprint # cert
                    THEN VerifyChanged(hostname, cert, info)
                    ELSE VerifyMatch(hostname, cert, Tick(clock))
    /\ UNCHANGED <<verifier, OnFirstSeen, OnCertificateChange>>

----------------------------------------------------------------------------
(* The other trust-store operations *)

\* lines 231-237
RemoveCertificate(hostname) ==
    /\ verifier = "ok"
    /\ \E outcome \in WriteOutcomes :
        LET hosts == Delete(knownHosts, hostname) IN
        /\ knownHosts' = hosts
        /\ file' = saveFile(hosts, outcome)
        /\ call' = Call("Remove", hostname, "", "none", "none", NoDecision, outcome)
        /\ ret' = saveErr(outcome)
    /\ UNCHANGED <<verifier, clock, OnFirstSeen, OnCertificateChange>>

\* lines 240-246
ClearAll ==
    /\ verifier = "ok"
    /\ \E outcome \in WriteOutcomes :
        /\ knownHosts' = EmptyHosts
        /\ file' = saveFile(EmptyHosts, outcome)
        /\ call' = Call("ClearAll", "", "", "none", "none", NoDecision, outcome)
        /\ ret' = saveErr(outcome)
    /\ UNCHANGED <<verifier, clock, OnFirstSeen, OnCertificateChange>>

\* lines 215-219
Save ==
    /\ verifier = "ok"
    /\ \E outcome \in WriteOutcomes :
        /\ file' = saveFile(knownHosts, outcome)
        /\ call' = Call("Save", "", "", "none", "none", NoDecision, outcome)
        /\ ret' = saveErr(outcome)
    /\ UNCHANGED <<knownHosts, verifier, clock, OnFirstSeen, OnCertificateChange>>

\* faulty variant: a missing file is a load error like any other
NewTOFUVerifier_MissingFails ==
    /\ \/ /\ file.kind = "json"
          /\ knownHosts' = Unmarshal(file.hosts)
          /\ verifier' = "ok"
          /\ ret' = Nil
       \/ /\ file.kind \in {"missing", "torn"}
          /\ knownHosts' = EmptyHosts
          /\ verifier' = Nil
          /\ ret' = ErrLoad
    /\ call' = Call("New", "", "", "none", "none", NoDecision, "none")
    /\ UNCHANGED <<file, clock, OnFirstSeen, OnCertificateChange>>

\* lines 73-91 and 184-194: a new process builds its verifier from the file
NewTOFUVerifier ==
    /\ \/ /\ file.kind = "missing"
          /\ knownHosts' = EmptyHosts
          /\ verifier' = "ok"
          /\ ret' = Nil
       \/ /\ file.kind = "json"
          /\ knownHosts' = Unmarshal(file.hosts)
          /\ verifier' = "ok"
          /\ ret' = Nil
       \/ /\ file.kind = "torn"
          /\ knownHosts' = EmptyHosts
          /\ verifier' = Nil
          /\ ret' = ErrLoad
    /\ call' = Call("New", "", "", "none", "none", NoDecision, "none")
    /\ UNCHANGED <<file, clock, OnFirstSeen, OnCertificateChange>>

----------------------------------------------------------------------------

InitStore ==
    /\ knownHosts = EmptyHosts
    /\ file = FileMissing
    /\ verifier = "ok"
    /\ clock = 0
    /\ OnFirstSeen \in {Nil, "set"}
    /\ OnCertificateChange \in {Nil, "set"}
    /\ call = NoCall
    /\ ret = Nil

\* callers verify while the clock has readings left
Verify ==
    /\ clock < MaxClock
    /\ \E hostname \in Hostnames, cert \in Fingerprints \cup {NoCert} :
           VerifyCertificate(hostname, cert)
Remove == \E hostname \in Hostnames : RemoveCertificate(hostname)

----------------------------------------------------------------------------
(* Protocol client *)

\* client.go:21
MaxRedirects == 5

ErrInvalidURL == "invalid URL"
ErrUnsupportedScheme == "unsupported URL scheme"
ErrConnect == "failed to connect"
ErrCertificateVerification == "certificate verification failed"
ErrSend == "failed to send request"
ErrReadResponse == "failed to read response"
ErrTooManyRedirects == "too many redirects"
ErrRedirectWithoutURL == "redirect without URL"
ErrInvalidRedirectURL == "invalid redirect URL"

Schemes == {"gemini", "https"}
Paths == {"/", "/x"}
URL(scheme, host, path) == [scheme |-> scheme, host |-> host, path |-> path]
URLs == [scheme : Schemes, host : Hostnames, path : Paths]
\* a string url.Parse rejects
BadURL == URL("", "", "%")

\* what a redirect's meta can hold: nothing, an absolute URL, a path, or garbage
NoMeta == [kind |-> "empty", url |-> BadURL]
AbsRef(u) == [kind |-> "abs", url |-> u]
PathRef(p) == [kind |-> "path", url |-> URL("", "", p)]
BadRef == [kind |-> "bad", url |-> BadURL]
RedirectMetas ==
    {NoMeta, BadRef} \cup {AbsRef(u) : u \in URLs} \cup {PathRef(p) : p \in Paths}

\* faulty variant: the reference is taken alone, the base is not used
resolveURL_RefAlone(base, ref) ==
    CASE ref.kind = "abs" -> ref.url
      [] ref.kind = "path" -> ref.url
      [] OTHER -> BadURL

\* client.go:166-178: baseURL.ResolveReference(refURL)
resolveURL(base, ref) ==
    CASE ref.kind = "abs" -> ref.url
      [] ref.kind = "path" -> [base EXCEPT !.path = ref.url.path]
      [] OTHER -> BadURL

\* faulty variant: the quotient is rounded to the nearest ten
Category_Rounded(s) == (s + 5) \div 10

\* status.go:54-71
Category(s) == s \div 10
IsSuccess(s) == Category(s) = 2
IsRedirect(s) == Category(s) = 3

\* the status codes a server answers with in the model
StatusCodes == {10, 20, 31, 44, 51, 60}

NoResponse == [Status |-> 0, Meta |-> NoMeta, Body |-> FALSE, URL |-> BadURL]

\* no header has been read yet
NoHeader == [Status |-> 0, Meta |-> NoMeta]
Header(status, meta) == [Status |-> status, Meta |-> meta]

\* faulty variant: a body is attached whatever the status
Response_AlwaysBody(status, meta, url) ==
    [Status |-> status,
     Meta |-> IF IsRedirect(status) THEN meta ELSE NoMeta,
     Body |-> TRUE,
     URL |-> url]

\* faulty variant: the meta is not carried into the response
Response_MetaDropped(status, meta, url) ==
    [Status |-> status,
     Meta |-> NoMeta,
     Body |-> IsSuccess(status),
     URL |-> url]

\* response.go:100-111; the meta of a non-redirect response is not followed
\* and is left out of the model
Response(status, meta, url) ==
    [Status |-> status,
     Meta |-> IF IsRedirect(status) THEN meta ELSE NoMeta,
     Body |-> IsSuccess(status),
     URL |-> url]

ErrNoBody == "no response body"
ErrReadBody == "read body failed"

\* the body of a fresh response: not read, not closed
Untouched == [op |-> "none", read |-> FALSE, closed |-> FALSE, err |-> Nil]

Conn == [open |-> TRUE, verified |-> FALSE, sent |-> FALSE]
SetLast(seq, field, value) == [seq EXCEPT ![Len(seq)][field] = value]

Return(r, e) ==
    /\ pc' = "done"
    /\ resp' = r
    /\ err' = e

\* client.go:59-61 and 64: the first frame of get(), redirectCount 0
Start(url) ==
    /\ pc \in {"idle", "done"}
    /\ pc' = "dial"
    /\ rawURL' = url
    /\ redirectCount' = 0
    /\ conns' = << >>
    /\ responses' = << >>
    /\ received' = NoHeader
    /\ resp' = NoResponse
    /\ err' = Nil
    /\ body' = Untouched
    /\ UNCHANGED <<storeVars, TOFU, cMaxRedirects>>

\* client.go:59-61
Get(url) ==
    /\ Start(url)
    /\ UNCHANGED FollowRedirects

\* client.go:194-213; Timeout and TLSConfig are not part of the model
RequestOptions == {"WithTimeout", "WithTLSConfig", "WithoutRedirects"}

\* client.go:184-186: every option is applied to the client itself
ApplyOptions(opts, follow) ==
    IF "WithoutRedirects" \in opts THEN FALSE ELSE follow

\* client.go:182-189
ClientRequest(url, opts) ==
    /\ Start(url)
    /\ FollowRedirects' = ApplyOptions(opts, FollowRedirects)

\* faulty variant: any scheme is dialled
SupportedScheme_Any(u) == TRUE

\* client.go:72
SupportedScheme(u) == u.scheme = "gemini"

\* client.go:66-97
Dial ==
    /\ pc = "dial"
    /\ IF rawURL = BadURL
       THEN Return(NoResponse, ErrInvalidURL) /\ UNCHANGED conns
       ELSE IF ~SupportedScheme(rawURL)
       THEN Return(NoResponse, ErrUnsupportedScheme) /\ UNCHANGED conns
       ELSE \E connected \in BOOLEAN :
            IF ~connected
            THEN Return(NoResponse, ErrConnect) /\ UNCHANGED conns
            ELSE /\ conns' = Append(conns, Conn)
                 /\ pc' = "verify"
                 /\ UNCHANGED <<resp, err>>
    /\ UNCHANGED <<storeVars, TOFU, FollowRedirects, cMaxRedirects, body, rawURL,
                   redirectCount, responses, received>>

\* client.go:99-109
VerifyConn ==
    /\ pc = "verify"
    /\ TOFU # Nil => clock < MaxClock
    /\ IF TOFU = Nil
       THEN /\ pc' = "send"
            /\ UNCHANGED <<storeVars, conns, resp, err>>
       ELSE \E cert \in Fingerprints \cup {NoCert} :
            /\ VerifyCertificate(rawURL.host, cert)
            /\ IF ret' = Nil
               THEN /\ conns' = SetLast(conns, "verified", TRUE)
                    /\ pc' = "send"
                    /\ UNCHANGED <<resp, err>>
               ELSE \* the inner err shadows the one the deferred close tests
                    /\ Return(NoResponse, ErrCertificateVerification)
                    /\ UNCHANGED conns
    /\ UNCHANGED <<TOFU, FollowRedirects, cMaxRedirects, body, rawURL, redirectCount,
                   responses, received>>

\* client.go:111-115
Send ==
    /\ pc = "send"
    /\ \E written \in BOOLEAN :
        IF written
        THEN /\ conns' = SetLast(conns, "sent", TRUE)
             /\ pc' = "read"
             /\ UNCHANGED <<resp, err>>
        ELSE \* the inner err shadows the one the deferred close tests
             /\ Return(NoResponse, ErrSend)
             /\ UNCHANGED conns
    /\ UNCHANGED <<storeVars, TOFU, FollowRedirects, cMaxRedirects, body, rawURL,
                   redirectCount, responses, received>>

\* faulty variant: off by one, one redirect too many is followed
RedirectLimitReached_OffByOne(count) == count > cMaxRedirects

\* client.go:137
RedirectLimitReached(count) == count >= cMaxRedirects

\* faulty variant: the redirecting connection is left open
CloseRedirected_Skipped(seq) == seq

\* client.go:129: conn.Close() before the redirect is followed
CloseRedirected(seq) == SetLast(seq, "open", FALSE)

\* faulty variant: the connection is kept whatever the status
CloseUnlessSuccess_Skipped(seq, status) == seq

\* client.go:157-160: a response that is not a success has no body to read
CloseUnlessSuccess(seq, status) ==
    IF IsSuccess(status) THEN seq ELSE SetLast(seq, "open", FALSE)

\* faulty variant: an empty target is taken for a reference
MissingURL_Never(meta) == FALSE

\* client.go:142-143: redirectURL == ""
MissingURL(meta) == meta = NoMeta

\* client.go:126-155
HandleRedirect(r) ==
    /\ conns' = CloseRedirected(conns)
    /\ IF ~FollowRedirects
       THEN Return(r, Nil) /\ UNCHANGED <<rawURL, redirectCount>>
       ELSE IF RedirectLimitReached(redirectCount)
       THEN Return(NoResponse, ErrTooManyRedirects) /\ UNCHANGED <<rawURL, redirectCount>>
       ELSE IF MissingURL(r.Meta)
       THEN Return(NoResponse, ErrRedirectWithoutURL) /\ UNCHANGED <<rawURL, redirectCount>>
       ELSE IF resolveURL(rawURL, r.Meta) = BadURL
       THEN Return(NoResponse, ErrInvalidRedirectURL) /\ UNCHANGED <<rawURL, redirectCount>>
       ELSE /\ rawURL' = resolveURL(rawURL, r.Meta)
            /\ redirectCount' = redirectCount + 1
            /\ pc' = "dial"
            /\ UNCHANGED <<resp, err>>

\* client.go:117-162
Read ==
    /\ pc = "read"
    /\ \/ \* ReadResponse fails (read error or malformed header): err is set,
          \* the deferred function closes the connection
          /\ conns' = SetLast(conns, "open", FALSE)
          /\ Return(NoResponse, ErrReadResponse)
          /\ UNCHANGED <<rawURL, redirectCount, responses, received>>
       \/ \E status \in StatusCodes, meta \in RedirectMetas :
          LET r == Response(status, meta, rawURL) IN
          /\ IsRedirect(status) \/ meta = NoMeta
          /\ responses' = Append(responses, status)
          /\ received' = Header(status, meta)
          /\ IF IsRedirect(status)
             THEN HandleRedirect(r)
             ELSE /\ conns' = CloseUnlessSuccess(conns, status)
                  /\ Return(r, Nil)
                  /\ UNCHANGED <<rawURL, redirectCount>>
    /\ UNCHANGED <<storeVars, TOFU, FollowRedirects, cMaxRedirects, body>>

\* response.go:108-111: the body is io.NopCloser(bufReader), whose Close returns
\* nil and leaves the reader under it, the connection, as it is
NopCloserClose(seq) == seq

\* response.go:117-122
ResponseClose ==
    /\ pc = "done"
    /\ err = Nil
    /\ body' = [body EXCEPT !.op = "Close", !.closed = @ \/ resp.Body, !.err = Nil]
    /\ conns' = IF resp.Body THEN NopCloserClose(conns) ELSE conns
    /\ UNCHANGED <<storeVars, TOFU, FollowRedirects, cMaxRedirects, pc, rawURL,
                   redirectCount, responses, received, resp, err>>

\* response.go:143-150
ReadBody ==
    /\ pc = "done"
    /\ err = Nil
    /\ IF ~resp.Body
       THEN /\ body' = [body EXCEPT !.op = "ReadBody", !.err = ErrNoBody]
            /\ UNCHANGED conns
       ELSE \E e \in {Nil, ErrReadBody} :
            /\ body' = [op |-> "ReadBody", read |-> TRUE, closed |-> TRUE, err |-> e]
            /\ conns' = NopCloserClose(conns)
    /\ UNCHANGED <<storeVars, TOFU, FollowRedirects, cMaxRedirects, pc, rawURL,
                   redirectCount, responses, received, resp, err>>

InitClient ==
    /\ TOFU \in {Nil, "set"}
    /\ FollowRedirects \in BOOLEAN
    /\ cMaxRedirects \in 0..MaxRedirects
    /\ pc = "idle"
    /\ rawURL = BadURL
    /\ redirectCount = 0
    /\ conns = << >>
    /\ responses = << >>
    /\ received = NoHeader
    /\ firstURL = BadURL
    /\ resp = NoResponse
    /\ err = Nil
    /\ body = Untouched

NewClient ==
    /\ TOFU = Nil
    /\ FollowRedirects = TRUE
    /\ cMaxRedirects = MaxRedirects

Request == \E url \in URLs \cup {BadURL} : Get(url)

----------------------------------------------------------------------------
(* Status classifier *)

\* status.go:45-50
CategoryInput == 1
CategorySuccess == 2
CategoryRedirect == 3
CategoryTemporaryFailure == 4
CategoryPermanentFailure == 5
CategoryClientCertificate == 6

\* status.go:59-91
IsInput(s) == Category(s) = CategoryInput
IsTemporaryFailure(s) == Category(s) = CategoryTemporaryFailure
IsPermanentFailure(s) == Category(s) = CategoryPermanentFailure
IsClientCertificate(s) == Category(s) = CategoryClientCertificate
IsError(s) == IsTemporaryFailure(s) \/ IsPermanentFailure(s)

NotClassified == [Category |-> -1]

Classified(s) ==
    [Category |-> Category(s),
     IsInput |-> IsInput(s),
     IsSuccess |-> IsSuccess(s),
     IsRedirect |-> IsRedirect(s),
     IsTemporaryFailure |-> IsTemporaryFailure(s),
     IsPermanentFailure |-> IsPermanentFailure(s),
     IsClientCertificate |-> IsClientCertificate(s),
     IsError |-> IsError(s)]

\* the codes the classifier is given: every two-digit value and the one-digit
\* ones, named or not
Codes == 0..99

InitClassifier ==
    /\ statusCode = 0
    /\ class = NotClassified

Classify ==
    /\ class = NotClassified
    /\ class' = Classified(statusCode)
    /\ UNCHANGED <<statusCode, outsideStatus>>

----------------------------------------------------------------------------
(* Concurrent callers of one verifier *)

Threads == {"g1", "g2"}

NoThread == "none"

\* a sync.RWMutex nobody holds
Unlocked == [writer |-> NoThread, readers |-> {}]

\* no goroutine has called the verifier yet
NoGoroutines == << >>

InitLock ==
    /\ mu = Unlocked
    /\ thr = NoGoroutines

\* a goroutine's call, as it starts
Started(op, hostname, cert, now) ==
    [pc |-> "lock", op |-> op, hostname |-> hostname, cert |-> cert, now |-> now,
     path |-> "none", data |-> EmptyHosts, ret |-> Nil]

Spawn(t, c) == [u \in DOMAIN thr \cup {t} |-> IF u = t THEN c ELSE thr[u]]

\* the goroutine's call starts: VerifyCertificate builds its record from the
\* certificate and two clock readings before it asks for the lock (lines 94-109)
GoVerify(t, hostname, cert) ==
    /\ t \notin DOMAIN thr
    /\ IF cert = NoCert
       THEN /\ thr' = Spawn(t, [Started("Verify", hostname, cert, 0) EXCEPT
                                   !.pc = "done", !.path = "nopeer",
                                   !.ret = ErrNoPeerCertificates])
            /\ UNCHANGED clock
       ELSE /\ thr' = Spawn(t, Started("Verify", hostname, cert, Tick(clock)))
            /\ clock' = Tick(clock)
    /\ UNCHANGED <<knownHosts, file, mu>>

GoRemove(t, hostname) ==
    /\ t \notin DOMAIN thr
    /\ thr' = Spawn(t, Started("Remove", hostname, "", 0))
    /\ UNCHANGED <<knownHosts, file, clock, mu>>

GoClearAll(t) ==
    /\ t \notin DOMAIN thr
    /\ thr' = Spawn(t, Started("ClearAll", "", "", 0))
    /\ UNCHANGED <<knownHosts, file, clock, mu>>

GoSave(t) ==
    /\ t \notin DOMAIN thr
    /\ thr' = Spawn(t, Started("Save", "", "", 0))
    /\ UNCHANGED <<knownHosts, file, clock, mu>>

\* faulty variant: Lock is granted while another goroutine holds the mutex
CanLock_Always(m) == TRUE

\* sync.RWMutex: Lock waits until no writer and no reader holds the mutex,
\* RLock until no writer holds it
CanLock(m) == m.writer = NoThread /\ m.readers = {}
CanRLock(m) == m.writer = NoThread

\* lines 216, 223: Save and GetCertificateInfo take the read lock
TakesRLock(op) == op = "Save"

\* v.mu.Lock() / v.mu.RLock() (lines 111, 185, 216, 232, 241)
Acquire(t) ==
    /\ t \in DOMAIN thr
    /\ thr[t].pc = "lock"
    /\ IF TakesRLock(thr[t].op)
       THEN /\ CanRLock(mu)
            /\ mu' = [mu EXCEPT !.readers = @ \cup {t}]
       ELSE /\ CanLock(mu)
            /\ mu' = [mu EXCEPT !.writer = t]
    /\ thr' = [thr EXCEPT ![t].pc = "locked"]
    /\ UNCHANGED <<knownHosts, file, clock>>

\* faulty variant: the mutex stays held when the call returns
Release_Held(m, t) == m

\* the deferred v.mu.Unlock() / v.mu.RUnlock()
Release(m, t) ==
    [writer |-> IF m.writer = t THEN NoThread ELSE m.writer,
     readers |-> m.readers \ {t}]

\* the call returns e and its deferred unlock runs
Unlock(t, path, e) ==
    /\ thr' = [thr EXCEPT ![t] = [@ EXCEPT !.pc = "done", !.path = path, !.ret = e]]
    /\ mu' = Release(mu, t)

\* the call has changed the map to hosts and goes on to save()
ToSave(t, path, hosts) ==
    /\ knownHosts' = hosts
    /\ thr' = [thr EXCEPT ![t] = [@ EXCEPT !.pc = "save", !.path = path]]
    /\ UNCHANGED mu

\* lines 113-165 under the lock: look the host up, ask the hook, change the map
LockedVerify(t) ==
    LET hostname == thr[t].hostname
        cert == thr[t].cert
        info == NewInfo(cert, thr[t].now)
    IN IF hostname \notin DOMAIN knownHosts
       THEN /\ \E d \in FirstSeenDecisions :
                IF ~d.accept
                THEN Unlock(t, "first", ErrRejectedByUser) /\ UNCHANGED knownHosts
                ELSE ToSave(t, "first",
                            Put(knownHosts, hostname, FirstSeenInfo(info, d.trustLevel)))
            /\ UNCHANGED clock
       ELSE IF knownHosts[hostname].Fingerprint # cert
       THEN /\ \E d \in CertificateChangeDecisions :
                IF ~d.accept
                THEN Unlock(t, "changed", ErrChangedRejected) /\ UNCHANGED knownHosts
                ELSE ToSave(t, "changed",
                            Put(knownHosts, hostname,
                                ChangedInfo(knownHosts[hostname], info, d.trustLevel)))
            /\ UNCHANGED clock
       ELSE /\ ToSave(t, "match",
                      [knownHosts EXCEPT ![hostname] = MatchInfo(@, Tick(clock))])
            /\ clock' = Tick(clock)

\* the part of each call between taking the lock and save()
Locked(t) ==
    /\ t \in DOMAIN thr
    /\ thr[t].pc = "locked"
    /\ CASE thr[t].op = "Verify" -> LockedVerify(t)
         [] thr[t].op = "Remove" ->
                /\ ToSave(t, "none", Delete(knownHosts, thr[t].hostname))
                /\ UNCHANGED clock
         [] thr[t].op = "ClearAll" ->
                ToSave(t, "none", EmptyHosts) /\ UNCHANGED clock
         [] thr[t].op = "Save" ->
                ToSave(t, "none", knownHosts) /\ UNCHANGED clock
    /\ UNCHANGED file

\* what the call returns once save() has ended with outcome
CallErr(t, outcome) ==
    IF thr[t].op = "Verify"
    THEN IF thr[t].path = "match" THEN MatchErr(outcome) ELSE StoreErr(outcome)
    ELSE saveErr(outcome)

\* the goroutines inside os.WriteFile
Writers == {t \in DOMAIN thr : thr[t].pc = "writing"}

\* lines 197-211: save() marshals the map and os.WriteFile opens the file
\* with O_TRUNC, or fails before the file is touched
WriteBegin(t) ==
    /\ t \in DOMAIN thr
    /\ thr[t].pc = "save"
    /\ \E opened \in BOOLEAN :
        IF opened
        THEN /\ file' = FileTorn
             /\ thr' = [thr EXCEPT ![t] = [@ EXCEPT !.pc = "writing",
                                           !.data = saveData(knownHosts)]]
             /\ UNCHANGED mu
        ELSE /\ Unlock(t, thr[t].path, CallErr(t, "untouched"))
             /\ UNCHANGED file
    /\ UNCHANGED <<knownHosts, clock>>

\* os.WriteFile ends: the bytes are all written or the write failed part way;
\* bytes of another writer with other data may be mixed in
WriteEnd(t) ==
    /\ t \in DOMAIN thr
    /\ thr[t].pc = "writing"
    /\ \E outcome \in {"ok", "torn"} :
        /\ \/ file' = WriteFile(file, thr[t].data, outcome)
           \/ /\ \E u \in Writers \ {t} : thr[u].data # thr[t].data
              /\ file' = FileTorn
        /\ Unlock(t, thr[t].path, CallErr(t, outcome))
    /\ UNCHANGED <<knownHosts, clock>>

Go(t) ==
    \/ \E hostname \in Hostnames, cert \in Fingerprints \cup {NoCert} :
           GoVerify(t, hostname, cert)
    \/ \E hostname \in Hostnames : GoRemove(t, hostname)
    \/ GoClearAll(t)
    \/ GoSave(t)

\* one step of a call that has started
Step(t) ==
    \/ Acquire(t)
    \/ Locked(t)
    \/ WriteBegin(t)
    \/ WriteEnd(t)

outsideLock == <<verifier, OnFirstSeen, OnCertificateChange, call, ret,
                 clientVars, headerVars, statusVars, parserVars, browserVars>>

(* A decision hook that calls the verifier it was called by *)

\* lines 120-122 and 144-146: the hook VerifyCertificate asks for t's call
HookFor(t) ==
    IF thr[t].hostname \notin DOMAIN knownHosts
    THEN IF OnFirstSeen # Nil THEN "OnFirstSeen" ELSE "none"
    ELSE IF knownHosts[thr[t].hostname].Fingerprint # thr[t].cert
    THEN IF OnCertificateChange # Nil THEN "OnCertificateChange" ELSE "none"
    ELSE "none"

\* the methods a hook can call, and the lock each asks for first
\* (lines 216, 223: RLock; line 232: Lock)
HookRequests == {"GetCertificateInfo", "Save", "RemoveCertificate"}
HookWaits(r) == IF r = "RemoveCertificate" THEN "hookLock" ELSE "hookRLock"

\* the hook runs in t's goroutine, inside VerifyCertificate's critical
\* section, and calls one of the verifier's methods
HookCalls(t) ==
    /\ t \in DOMAIN thr
    /\ thr[t].pc = "locked"
    /\ thr[t].op = "Verify"
    /\ HookFor(t) # "none"
    /\ \E r \in HookRequests : thr' = [thr EXCEPT ![t].pc = HookWaits(r)]
    /\ UNCHANGED <<knownHosts, file, clock, mu>>

\* the method called by the hook asks for v.mu: a sync.RWMutex is not
\* reentrant, the request waits like any other goroutine's
HookAcquire(t) ==
    /\ t \in DOMAIN thr
    /\ thr[t].pc \in {"hookLock", "hookRLock"}
    /\ IF thr[t].pc = "hookRLock"
       THEN /\ CanRLock(mu)
            /\ mu' = [mu EXCEPT !.readers = @ \cup {t}]
       ELSE /\ CanLock(mu)
            /\ mu' = [mu EXCEPT !.writer = t]
    /\ thr' = [thr EXCEPT ![t].pc = "hooked"]
    /\ UNCHANGED <<knownHosts, file, clock>>

\* the method returns to the hook, which goes on to its decision
HookReturns(t) ==
    /\ t \in DOMAIN thr
    /\ thr[t].pc = "hooked"
    /\ mu' = [mu EXCEPT !.readers = @ \ {t}]
    /\ thr' = [thr EXCEPT ![t].pc = "locked"]
    /\ UNCHANGED <<knownHosts, file, clock>>

\* a step of t's call that waits for nobody's decision but the scheduler's
StepHook(t) ==
    \/ Step(t)
    \/ HookAcquire(t)
    \/ HookReturns(t)

----------------------------------------------------------------------------
(* Response header decoder *)

\* response.go:57
MaxMeta == 1024

\* header lines start with a token of up to MaxToken bytes
MaxToken == 3

ErrStatusLength == "invalid status code length"
ErrStatusInvalid == "invalid status code"
ErrStatusRange == "status code out of range"
ErrMetaTooLong == "meta string too long"
ErrReadHeader == "failed to read response header"

CR == "\r"
LF == "\n"
SP == " "

\* a string is a sequence of runs: n copies of the byte ch
Run(c, n) == [ch |-> c, n |-> n]
Str(chars) == [i \in 1..Len(chars) |-> Run(chars[i], 1)]

\* len(s)
RECURSIVE StrLen(_)
StrLen(s) == IF s = << >> THEN 0 ELSE s[1].n + StrLen(Tail(s))

\* the bytes of s, one by one
RECURSIVE Bytes(_)
Bytes(s) ==
    IF s = << >> THEN << >>
    ELSE [i \in 1..s[1].n |-> s[1].ch] \o Bytes(Tail(s))

\* strings.TrimRight(s, cutset): every trailing byte of cutset is removed
RECURSIVE TrimRight(_, _)
TrimRight(s, cutset) ==
    IF s # << >> /\ s[Len(s)].ch \in cutset
    THEN TrimRight(SubSeq(s, 1, Len(s) - 1), cutset)
    ELSE s

\* strings.IndexByte(s, c) in runs: the run that starts with the first c, 0 for -1
IndexByte(s, c) ==
    LET hits == {i \in 1..Len(s) : s[i].ch = c}
    IN IF hits = {} THEN 0 ELSE CHOOSE i \in hits : \A j \in hits : i <= j

\* s[:i] and s[i+1:] for the byte i that starts run k
Before(s, k) == SubSeq(s, 1, k - 1)
After(s, k) ==
    (IF s[k].n > 1 THEN <<Run(s[k].ch, s[k].n - 1)>> ELSE << >>)
        \o SubSeq(s, k + 1, Len(s))

DigitChars == {"0", "1", "2", "3", "4", "5", "6", "7", "8", "9"}
DigitValue(c) ==
    CASE c = "0" -> 0 [] c = "1" -> 1 [] c = "2" -> 2 [] c = "3" -> 3
      [] c = "4" -> 4 [] c = "5" -> 5 [] c = "6" -> 6 [] c = "7" -> 7
      [] c = "8" -> 8 [] c = "9" -> 9

RECURSIVE Num(_)
Num(b) ==
    IF b = << >> THEN 0
    ELSE 10 * Num(SubSeq(b, 1, Len(b) - 1)) + DigitValue(b[Len(b)])

\* strconv.Atoi: an optional sign, then one or more decimal digits
Atoi(b) ==
    LET signed == b # << >> /\ b[1] \in {"+", "-"}
        digits == IF signed THEN Tail(b) ELSE b
    IN IF digits = << >> \/ \E i \in 1..Len(digits) : digits[i] \notin DigitChars
       THEN [ok |-> FALSE, n |-> 0]
       ELSE [ok |-> TRUE,
             n |-> IF signed /\ b[1] = "-" THEN 0 - Num(digits) ELSE Num(digits)]

Parsed(via, status, meta, e) ==
    [via |-> via, Status |-> status, Meta |-> meta, err |-> e]
NotParsed == Parsed("none", 0, << >>, Nil)
Failed(e) == Parsed("ParseResponseHeader", 0, << >>, e)

\* faulty variant: the lower end of the range is not tested
OutOfRange_NoLowerEnd(code) == code > 69

\* response.go:77
OutOfRange(code) == code < 10 \/ code > 69

\* response.go:66-82
parseStatus(s) ==
    IF StrLen(s) # 2 THEN [Status |-> 0, err |-> ErrStatusLength]
    ELSE LET code == Atoi(Bytes(s)) IN
         IF ~code.ok THEN [Status |-> 0, err |-> ErrStatusInvalid]
         ELSE IF OutOfRange(code.n) THEN [Status |-> 0, err |-> ErrStatusRange]
         ELSE [Status |-> code.n, err |-> Nil]

\* faulty variant: a line without a space is refused
NoSpaceHeader_Strict(l) == Failed(ErrStatusInvalid)

\* response.go:37-44: no space, the whole line is the status
NoSpaceHeader(l) ==
    LET status == parseStatus(l) IN
    IF status.err # Nil THEN Failed(status.err)
    ELSE Parsed("ParseResponseHeader", status.Status, << >>, Nil)

\* faulty variant: one byte more is let through
MetaTooLong_OffByOne(meta) == StrLen(meta) > MaxMeta + 1

\* response.go:57
MetaTooLong(meta) == StrLen(meta) > MaxMeta

\* response.go:31-62
ParseResponseHeader(l) ==
    LET trimmed == TrimRight(l, {CR, LF})
        spaceIdx == IndexByte(trimmed, SP)
    IN IF spaceIdx = 0 THEN NoSpaceHeader(trimmed)
       ELSE LET status == parseStatus(Before(trimmed, spaceIdx))
                meta == After(trimmed, spaceIdx)
            IN IF status.err # Nil THEN Failed(status.err)
               ELSE IF MetaTooLong(meta) THEN Failed(ErrMetaTooLong)
               ELSE Parsed("ParseResponseHeader", status.Status, meta, Nil)

\* bufio.Reader.ReadString('\n'): the bytes up to and including the first LF
ReadString(stream) ==
    LET k == IndexByte(stream, LF)
    IN IF k = 0 THEN [line |-> stream, err |-> ErrReadHeader]
       ELSE [line |-> SubSeq(stream, 1, k), err |-> Nil]

\* response.go:85-105: the header part of ReadResponse
ReadResponseHeader(stream) ==
    LET read == ReadString(stream) IN
    IF read.err # Nil THEN Parsed("ReadResponse", 0, << >>, read.err)
    ELSE [ParseResponseHeader(read.line) EXCEPT !.via = "ReadResponse"]

\* the header lines the decoder is given: a token of up to n bytes, then
\* nothing or a space and one of the texts of Rests, then a terminator
TokenChars == {"0", "1", "6", "7", "9", "+", "-", "x"}
Tokens(n) == UNION {[1..k -> TokenChars] : k \in 0..n}
\* what follows the first space: short texts, texts with a space or a CR in
\* them, and texts of MaxMeta and MaxMeta + 1 bytes
Rests(m) ==
    {<< >>, Str(<<"x">>), Str(<<SP>>), Str(<<CR>>), Str(<<"x", SP, "x">>),
     <<Run("x", m)>>, <<Run("x", m + 1)>>,
     <<Run("x", m), Run(CR, 1)>>, <<Run(SP, 1), Run("x", m)>>}
Terminators == {<< >>, <<LF>>, <<CR, LF>>}
Lines(n) ==
    {Str(tok) \o Str(term) : tok \in Tokens(n), term \in Terminators}
    \cup {Str(tok) \o <<Run(SP, 1)>> \o rest \o Str(term) :
              tok \in Tokens(n), rest \in Rests(MaxMeta), term \in Terminators}

InitDecoder ==
    /\ line = << >>
    /\ header = NotParsed

ParseHeader ==
    /\ header = NotParsed
    /\ header' = ParseResponseHeader(line)
    /\ UNCHANGED <<line, outsideDecoder>>

ReadHeader ==
    /\ header = NotParsed
    /\ header' = ReadResponseHeader(line)
    /\ UNCHANGED <<line, outsideDecoder>>

----------------------------------------------------------------------------
(* Gemtext parser.  A Go string is the sequence of its characters. *)

\* the longest document Parse is given
MaxLines == 3

\* types.go:6-33
LineTypeText == 0
LineTypeLink == 1
LineTypeHeading1 == 2
LineTypeHeading2 == 3
LineTypeHeading3 == 4
LineTypeListItem == 5
LineTypeQuote == 6
LineTypePreformatted == 7
LineTypePreformatToggle == 8

\* types.go:62-64
IsHeading(t) == t \in {LineTypeHeading1, LineTypeHeading2, LineTypeHeading3}

\* strings.HasPrefix, strings.TrimPrefix
HasPrefix(s, prefix) ==
    Len(s) >= Len(prefix) /\ SubSeq(s, 1, Len(prefix)) = prefix
TrimPrefix(s, prefix) ==
    IF HasPrefix(s, prefix) THEN SubSeq(s, Len(prefix) + 1, Len(s)) ELSE s

\* strings.TrimSpace: the white space at both ends goes
LeadingSpaces(s) ==
    IF \A i \in 1..Len(s) : s[i] = " "
    THEN Len(s)
    ELSE CHOOSE k \in 0..(Len(s) - 1) :
            (\A i \in 1..k : s[i] = " ") /\ s[k + 1] # " "
TrailingSpaces(s) ==
    IF \A i \in 1..Len(s) : s[i] = " "
    THEN Len(s)
    ELSE CHOOSE k \in 0..(Len(s) - 1) :
            (\A i \in (Len(s) - k + 1)..Len(s) : s[i] = " ") /\ s[Len(s) - k] # " "
TrimSpace(s) ==
    LET rest == SubSeq(s, LeadingSpaces(s) + 1, Len(s))
    IN SubSeq(rest, 1, Len(rest) - TrailingSpaces(rest))

\* strings.SplitN(s, " ", 2): the text before the first space and, when there
\* is a space, the text after it
FirstSpace(s) ==
    IF \A i \in 1..Len(s) : s[i] # " "
    THEN 0
    ELSE CHOOSE k \in 1..Len(s) : s[k] = " " /\ \A i \in 1..(k - 1) : s[i] # " "
SplitN2(s) ==
    IF FirstSpace(s) = 0
    THEN <<s>>
    ELSE <<SubSeq(s, 1, FirstSpace(s) - 1), SubSeq(s, FirstSpace(s) + 1, Len(s))>>

\* the character U+0060
Backtick == "backtick"
Backticks == <<Backtick, Backtick, Backtick>>
Arrow == <<"=", ">">>

\* gemtext.go:133-139
EmptyLink == [URL |-> << >>, Label |-> << >>, Display |-> << >>]

\* gemtext.go:128-161
parseLink(raw) ==
    LET content == TrimSpace(TrimPrefix(raw, Arrow))
        parts == SplitN2(content)
        label == IF Len(parts) > 1 THEN TrimSpace(parts[2]) ELSE << >>
    IN IF content = << >>
       THEN EmptyLink
       ELSE [URL |-> parts[1],
             Label |-> label,
             Display |-> IF label = << >> THEN parts[1] ELSE label]

\* types.go:67-82: a Line as parseLine first builds it
NewLine(raw) ==
    [Type |-> LineTypeText, Raw |-> raw, Text |-> << >>, Link |-> Nil,
     AltText |-> << >>]

\* faulty variant: a fence always opens a block
Toggle_AlwaysOpens(inPre) == TRUE

\* gemtext.go:53
Toggle(inPre) == ~inPre

\* gemtext.go:46-124: the line, and what the call leaves in *inPreformat and
\* *preformatAltText
parseLine(raw, inPre, altText) ==
    LET new == NewLine(raw)
        res(l, p, a) == [line |-> l, inPreformat |-> p, preformatAltText |-> a]
    IN IF HasPrefix(raw, Backticks)
       THEN IF Toggle(inPre)
            THEN LET alt == TrimSpace(TrimPrefix(raw, Backticks))
                 IN res([new EXCEPT !.Type = LineTypePreformatToggle, !.AltText = alt],
                        TRUE, alt)
            ELSE res([new EXCEPT !.Type = LineTypePreformatToggle, !.AltText = altText],
                     FALSE, << >>)
       ELSE IF inPre
       THEN res([new EXCEPT !.Type = LineTypePreformatted, !.Text = raw,
                            !.AltText = altText], inPre, altText)
       ELSE IF HasPrefix(raw, Arrow)
       THEN res([new EXCEPT !.Type = LineTypeLink, !.Link = parseLink(raw),
                            !.Text = parseLink(raw).Display],
                inPre, altText)
       ELSE IF HasPrefix(raw, <<"#", "#", "#">>)
       THEN res([new EXCEPT !.Type = LineTypeHeading3,
                            !.Text = TrimSpace(TrimPrefix(raw, <<"#", "#", "#">>))],
                inPre, altText)
       ELSE IF HasPrefix(raw, <<"#", "#">>)
       THEN res([new EXCEPT !.Type = LineTypeHeading2,
                            !.Text = TrimSpace(TrimPrefix(raw, <<"#", "#">>))],
                inPre, altText)
       ELSE IF HasPrefix(raw, <<"#">>)
       THEN res([new EXCEPT !.Type = LineTypeHeading1,
                            !.Text = TrimSpace(TrimPrefix(raw, <<"#">>))],
                inPre, altText)
       ELSE IF HasPrefix(raw, <<"*", " ">>)
       THEN res([new EXCEPT !.Type = LineTypeListItem,
                            !.Text = TrimPrefix(raw, <<"*", " ">>)],
                inPre, altText)
       ELSE IF HasPrefix(raw, <<">">>)
       THEN res([new EXCEPT !.Type = LineTypeQuote,
                            !.Text = TrimPrefix(TrimPrefix(raw, <<">">>), <<" ">>)],
                inPre, altText)
       ELSE res([new EXCEPT !.Text = raw], inPre, altText)

\* types.go:110-116
NewDocument == [Lines |-> << >>, Links |-> << >>, Headings |-> << >>]

\* types.go:119-131
AddLine(d, l) ==
    [Lines |-> Append(d.Lines, l),
     Links |-> IF l.Type = LineTypeLink THEN Append(d.Links, l) ELSE d.Links,
     Headings |-> IF IsHeading(l.Type) THEN Append(d.Headings, l) ELSE d.Headings]

\* the lines the scanner hands to parseLine
GemLines ==
    {<< >>,
     <<"t">>,
     <<Backtick, Backtick, Backtick>>,
     <<Backtick, Backtick, Backtick, "g", "o">>,
     <<Backtick, Backtick, Backtick, " ", "g", " ">>,
     <<Backtick, Backtick>>,
     <<" ", Backtick, Backtick, Backtick>>,
     <<"=", ">", " ", "u", " ", "l">>,
     <<"=", ">">>,
     <<"#", " ", "h">>,
     <<"#", "#", "h">>,
     <<"#", "#", "#", "h">>,
     <<"*", " ", "i">>,
     <<"*", "i">>,
     <<">", " ", "q">>}

\* gemtext.go:20-26
InitParser ==
    /\ doc = NewDocument
    /\ inPreformat = FALSE
    /\ preformatAltText = << >>

\* gemtext.go:27-31: one turn of the scanner loop
ScanLine ==
    /\ Len(doc.Lines) < MaxLines
    /\ \E raw \in GemLines :
        LET r == parseLine(raw, inPreformat, preformatAltText) IN
        /\ doc' = AddLine(doc, r.line)
        /\ inPreformat' = r.inPreformat
        /\ preformatAltText' = r.preformatAltText
    /\ UNCHANGED outsideParser

----------------------------------------------------------------------------
(* Browser: the Bubble Tea model.  Update runs on one message at a time;    *)
(* the commands it returns run on their own and answer with a message.     *)

\* the most loads in flight together, the longest history
MaxInFlight == 2
MaxHistory == 3

BrowserURLs == {"gemini://a/", "gemini://b/"}

\* part_001:20-34
ModeBrowse == "browse"
ModeAddressBar == "address"

\* The Go specification leaves open whether the operand m of
\* "return m, m.loadURL(url)" is read before or after the call
EvalOrders == {"call first", "operand first"}

\* part_001:127-172
NewModel(startURL) ==
    [mode |-> ModeBrowse, currentURL |-> startURL, document |-> Nil,
     loading |-> FALSE, err |-> Nil, history |-> << >>, historyPos |-> -1]

\* m.history[i] for a Go index i
At(history, i) == history[i + 1]

\* part_001:512-524: what loadURL does to the model it is called on
loadURL(m, url) ==
    LET h == IF url # m.currentURL
             THEN Append(SubSeq(m.history, 1, m.historyPos + 1), url)
             ELSE m.history
    IN [m EXCEPT !.history = h,
                 !.historyPos = IF url # m.currentURL THEN Len(h) - 1 ELSE @,
                 !.currentURL = url,
                 !.loading = TRUE,
                 !.err = Nil]

\* "return m, m.loadURL(url)": the model Update hands back
Returned(m, url) ==
    IF evalOrder = "call first" THEN loadURL(m, url) ELSE m

\* part_001:526-551: the command loadURL returns, started by the runtime
Issue(cs, url) == Append(cs, url)

Drop(cs, i) == SubSeq(cs, 1, i - 1) \o SubSeq(cs, i + 1, Len(cs))

NoTrip == [key |-> "none", stage |-> 0, X |-> "", Y |-> ""]
NoRace == [on |-> FALSE, A |-> "", B |-> "", ok |-> TRUE]

\* the user asks for url while exactly one load, A, is still in flight
Racing(url) ==
    IF Len(cmds) = 1
    THEN [on |-> TRUE, A |-> cmds[1], B |-> url, ok |-> TRUE]
    ELSE NoRace

\* the user, with page X loaded and shown, goes to another page Y
Leaves(key, url) ==
    IF /\ model.currentURL # ""
       /\ model.document = model.currentURL
       /\ cmds = << >>
       /\ url # model.currentURL
    THEN [key |-> key, stage |-> 1, X |-> model.currentURL, Y |-> url]
    ELSE [NoTrip EXCEPT !.key = key]

\* a key handler ends with "return m, m.loadURL(url)" on the model m
Load(m, url, trip) ==
    /\ Len(cmds) < MaxInFlight
    /\ url # m.currentURL => m.historyPos + 1 < MaxHistory
    /\ model' = Returned(m, url)
    /\ cmds' = Issue(cmds, url)
    /\ race' = Racing(url)
    /\ user' = trip

\* the program as tea.NewProgram(m).Run() starts it: part_001:175-181, Init
\* runs loadURL on its own copy of the model and only the command survives
InitBrowser ==
    /\ evalOrder \in EvalOrders
    /\ \E startURL \in BrowserURLs \cup {""} :
        /\ model = NewModel(startURL)
        /\ cmds = IF startURL # "" THEN Issue(<< >>, startURL) ELSE << >>
    /\ user = NoTrip
    /\ race = NoRace

\* the variables of the browser in the specifications without a browser
NoBrowser ==
    /\ model = Nil
    /\ cmds = << >>
    /\ evalOrder = "call first"
    /\ user = NoTrip
    /\ race = NoRace

\* part_001:253-256
FocusAddress ==
    /\ model.mode = ModeBrowse
    /\ model' = [model EXCEPT !.mode = ModeAddressBar]
    /\ UNCHANGED <<cmds, evalOrder, user, race>>

\* part_001:335-342: enter in the address bar, url being what was typed
AddressEnter ==
    /\ model.mode = ModeAddressBar
    /\ \E url \in BrowserURLs :
        Load([model EXCEPT !.mode = ModeBrowse], url, Leaves("enter", url))
    /\ UNCHANGED evalOrder

\* part_001:258-267: enter on the selected link of the page shown
FollowLink ==
    /\ model.mode = ModeBrowse
    /\ model.document # Nil
    /\ \E url \in BrowserURLs : Load(model, url, Leaves("link", url))
    /\ UNCHANGED evalOrder

\* part_001:290-293
Reload ==
    /\ model.mode = ModeBrowse
    /\ model.currentURL # ""
    /\ Load(model, model.currentURL, [NoTrip EXCEPT !.key = "reload"])
    /\ UNCHANGED evalOrder

\* part_001:295-302; the key does nothing at the first entry of the history
Back ==
    /\ model.mode = ModeBrowse
    /\ LET trip == IF user.stage = 1
                   THEN [user EXCEPT !.key = "back", !.stage = 2]
                   ELSE [NoTrip EXCEPT !.key = "back"]
       IN IF model.historyPos > 0
          THEN LET url == At(model.history, model.historyPos - 1)
               IN Load([model EXCEPT !.historyPos = @ - 1, !.currentURL = url],
                       url, trip)
          ELSE /\ user' = trip
               /\ user # trip
               /\ UNCHANGED <<model, cmds, race>>
    /\ UNCHANGED evalOrder

\* part_001:304-311; the key does nothing at the last entry of the history
Forward ==
    /\ model.mode = ModeBrowse
    /\ LET trip == [NoTrip EXCEPT !.key = "forward"]
       IN IF model.historyPos < Len(model.history) - 1
          THEN LET url == At(model.history, model.historyPos + 1)
               IN Load([model EXCEPT !.historyPos = @ + 1, !.currentURL = url],
                       url, trip)
          ELSE /\ user' = trip
               /\ user # trip
               /\ UNCHANGED <<model, cmds, race>>
    /\ UNCHANGED evalOrder

\* part_001:218-224: the answer of a load that fetched and parsed its page;
\* the message does not say which URL it is the page of
PageLoaded ==
    /\ \E i \in DOMAIN cmds :
        /\ model' = [model EXCEPT !.loading = FALSE, !.document = cmds[i]]
        /\ cmds' = Drop(cmds, i)
    /\ UNCHANGED <<evalOrder, user, race>>

\* part_001:226-229: the answer of a load that failed
ErrorMsg ==
    /\ \E i \in DOMAIN cmds :
        /\ model' = [model EXCEPT !.loading = FALSE, !.err = "error"]
        /\ cmds' = Drop(cmds, i)
    /\ race' = [race EXCEPT !.ok = FALSE]
    /\ UNCHANGED <<evalOrder, user>>

(* The trust store alone, driven by its callers *)
Init ==
    /\ InitStore
    /\ InitClient
    /\ NewClient
    /\ InitDecoder
    /\ InitClassifier
    /\ InitLock
    /\ InitParser
    /\ NoBrowser

Next ==
    \/ Verify /\ UNCHANGED outsideStore
    \/ Remove /\ UNCHANGED outsideStore
    \/ ClearAll /\ UNCHANGED outsideStore
    \/ Save /\ UNCHANGED outsideStore
    \/ NewTOFUVerifier /\ UNCHANGED outsideStore

Spec == Init /\ [][Next]_vars

(* The client's Get, with or without a verifier attached *)
InitGet ==
    /\ InitStore
    /\ OnFirstSeen = Nil
    /\ OnCertificateChange = Nil
    /\ InitClient
    /\ InitDecoder
    /\ InitClassifier
    /\ InitLock
    /\ InitParser
    /\ NoBrowser

NextGet ==
    \/ Request /\ UNCHANGED outsideClient
    \/ Dial /\ UNCHANGED outsideClient
    \/ VerifyConn /\ UNCHANGED outsideClient
    \/ Send /\ UNCHANGED outsideClient
    \/ Read /\ UNCHANGED outsideClient
    \/ ResponseClose /\ UNCHANGED outsideClient
    \/ ReadBody /\ UNCHANGED outsideClient

SpecGet == InitGet /\ [][NextGet]_vars

(* Redirect chains of a client without a verifier, with the URL given to *)
(* Get remembered beside the URL of the frame that is running            *)
InitChain ==
    /\ InitGet
    /\ TOFU = Nil

GetFrom(url) ==
    /\ Get(url)
    /\ firstURL' = url

RequestFrom(url, opts) ==
    /\ ClientRequest(url, opts)
    /\ firstURL' = url

NextChain ==
    \/ (\E url \in URLs \cup {BadURL} : GetFrom(url)) /\ UNCHANGED outsideChain
    \/ (\E url \in URLs, opts \in SUBSET RequestOptions : RequestFrom(url, opts))
         /\ UNCHANGED outsideChain
    \/ Dial /\ UNCHANGED outsideClient
    \/ VerifyConn /\ UNCHANGED outsideClient
    \/ Send /\ UNCHANGED outsideClient
    \/ Read /\ UNCHANGED outsideClient

SpecChain == InitChain /\ [][NextChain]_vars

(* Two goroutines, each making one call on the same verifier *)
InitConc ==
    /\ InitStore
    /\ InitClient
    /\ NewClient
    /\ InitDecoder
    /\ InitClassifier
    /\ InitLock
    /\ InitParser
    /\ NoBrowser

NextConc ==
    \/ \E t \in Threads : Go(t) /\ UNCHANGED outsideLock
    \/ \E t \in Threads : Acquire(t) /\ UNCHANGED outsideLock
    \/ \E t \in Threads : Locked(t) /\ UNCHANGED outsideLock
    \/ \E t \in Threads : WriteBegin(t) /\ UNCHANGED outsideLock
    \/ \E t \in Threads : WriteEnd(t) /\ UNCHANGED outsideLock

SpecConc == InitConc /\ [][NextConc]_vars

\* the Go scheduler runs every goroutine that can run, and a goroutine
\* waiting for the mutex gets it once it stays free
FairConc == SpecConc /\ \A t \in Threads : WF_vars(Step(t) /\ UNCHANGED outsideLock)

(* Goroutines whose hooks may call the verifier back *)
NextHook ==
    \/ \E t \in Threads : Go(t) /\ UNCHANGED outsideLock
    \/ \E t \in Threads : HookCalls(t) /\ UNCHANGED outsideLock
    \/ \E t \in Threads : StepHook(t) /\ UNCHANGED outsideLock

SpecHook == InitConc /\ [][NextHook]_vars

FairHook == SpecHook /\ \A t \in Threads : WF_vars(StepHook(t) /\ UNCHANGED outsideLock)

(* The decoder applied to every header line of the bounded set *)
InitHeader ==
    /\ InitStore
    /\ OnFirstSeen = Nil
    /\ OnCertificateChange = Nil
    /\ InitClient
    /\ NewClient
    /\ line \in Lines(MaxToken)
    /\ header = NotParsed
    /\ InitClassifier
    /\ InitLock
    /\ InitParser
    /\ NoBrowser

NextHeader ==
    \/ ParseHeader
    \/ ReadHeader

SpecHeader == InitHeader /\ [][NextHeader]_vars

(* The classifier applied to every code of the bounded set *)
InitStatus ==
    /\ InitStore
    /\ OnFirstSeen = Nil
    /\ OnCertificateChange = Nil
    /\ InitClient
    /\ NewClient
    /\ InitDecoder
    /\ statusCode \in Codes
    /\ class = NotClassified
    /\ InitLock
    /\ InitParser
    /\ NoBrowser

NextStatus == Classify

SpecStatus == InitStatus /\ [][NextStatus]_vars

(* The parser applied to every document of the bounded set *)
InitGemtext ==
    /\ InitStore
    /\ OnFirstSeen = Nil
    /\ OnCertificateChange = Nil
    /\ InitClient
    /\ NewClient
    /\ InitDecoder
    /\ InitClassifier
    /\ InitLock
    /\ InitParser
    /\ NoBrowser

NextGemtext == ScanLine

SpecGemtext == InitGemtext /\ [][NextGemtext]_vars

(* The browser, its user and the loads in flight *)
InitUI ==
    /\ InitStore
    /\ OnFirstSeen = Nil
    /\ OnCertificateChange = Nil
    /\ InitClient
    /\ NewClient
    /\ InitDecoder
    /\ InitClassifier
    /\ InitLock
    /\ InitParser
    /\ InitBrowser

NextUI ==
    \/ FocusAddress /\ UNCHANGED outsideBrowser
    \/ AddressEnter /\ UNCHANGED outsideBrowser
    \/ FollowLink /\ UNCHANGED outsideBrowser
    \/ Reload /\ UNCHANGED outsideBrowser
    \/ Back /\ UNCHANGED outsideBrowser
    \/ Forward /\ UNCHANGED outsideBrowser
    \/ PageLoaded /\ UNCHANGED outsideBrowser
    \/ ErrorMsg /\ UNCHANGED outsideBrowser

SpecUI == InitUI /\ [][NextUI]_vars

----------------------------------------------------------------------------
(* Properties *)

\* The state is the one a VerifyCertificate call with a certificate has just left
Verified == call.op = "Verify" /\ call.cert \in Fingerprints

\* File f holds host h with the record the map hosts has for it
Holds(f, hosts, h) ==
    /\ f.kind = "json"
    /\ h \in DOMAIN f.hosts
    /\ h \in DOMAIN hosts
    /\ f.hosts[h].fingerprint = hosts[h].Fingerprint
    /\ f.hosts[h].trust = hosts[h].Trust
    /\ f.hosts[h].first_seen = MarshalTime(hosts[h].FirstSeen)

FileHolds(h) == Holds(file, knownHosts, h)

\* C1: on every connection Get opens, the request line is written only after
\* the trust store verified and accepted that connection's certificate.
C1_RequestOnlyAfterVerification ==
    \A i \in 1..Len(conns) : conns[i].sent => conns[i].verified

\* C2: a known host presenting a different fingerprint, with no
\* OnCertificateChange hook installed, is rejected; the map and the file are
\* left as they were and save() is not called.
C2_ChangedRejectedByDefault ==
    [][(/\ Verified'
        /\ call'.hostname \in DOMAIN knownHosts
        /\ knownHosts[call'.hostname].Fingerprint # call'.cert
        /\ OnCertificateChange = Nil)
       => (/\ ret' = ErrChangedRejected
           /\ knownHosts' = knownHosts
           /\ file' = file
           /\ call'.save = "none")]_vars

C2_Witness ==
    /\ Verified
    /\ call.path = "changed"
    /\ OnCertificateChange = Nil
    /\ ret = ErrChangedRejected
    /\ FileHolds(call.hostname)

\* C3: the first verification of a host without a record, with no OnFirstSeen
\* hook installed, is accepted and stored with Permanent trust; it returns nil
\* only when the file holds the record, and an error when the write failed.
C3_FirstUseAcceptedAndPersisted ==
    [][(/\ Verified'
        /\ call'.hostname \notin DOMAIN knownHosts
        /\ OnFirstSeen = Nil)
       => (/\ ret' \in {Nil, ErrSave}
           /\ call'.hostname \in DOMAIN knownHosts'
           /\ knownHosts'[call'.hostname].Fingerprint = call'.cert
           /\ knownHosts'[call'.hostname].Trust = TrustPermanent
           /\ ret' = Nil => Holds(file', knownHosts', call'.hostname)
           /\ call'.save # "ok" => ret' = ErrSave)]_vars

C3_Witness ==
    /\ Verified
    /\ call.path = "first"
    /\ OnFirstSeen = Nil
    /\ ret = Nil
    /\ knownHosts[call.hostname].Trust = TrustPermanent
    /\ FileHolds(call.hostname)

\* C4: when OnCertificateChange accepts a changed certificate, the stored
\* record keeps the old firstSeen and takes the new fingerprint, the new
\* lastSeen and the hook's trust level; nil is returned only when the file
\* holds that record.
C4_AcceptedChangeKeepsFirstSeen ==
    [][(/\ Verified'
        /\ call'.hostname \in DOMAIN knownHosts
        /\ knownHosts[call'.hostname].Fingerprint # call'.cert
        /\ call'.accept)
       => LET old == knownHosts[call'.hostname]
              new == knownHosts'[call'.hostname] IN
          /\ call'.hook = "OnCertificateChange"
          /\ new.FirstSeen = old.FirstSeen
          /\ new.Fingerprint = call'.cert
          /\ new.LastSeen = Now(clock')
          /\ new.Trust = call'.trustLevel
          /\ ret' \in {Nil, ErrSave}
          /\ ret' = Nil => /\ Holds(file', knownHosts', call'.hostname)
                           /\ file'.hosts[call'.hostname].last_seen = clock']_vars

C4_Witness ==
    /\ Verified
    /\ call.path = "changed"
    /\ call.accept
    /\ ret = Nil
    /\ knownHosts[call.hostname].FirstSeen.wall < knownHosts[call.hostname].LastSeen.wall
    /\ knownHosts[call.hostname].Trust = TrustSession

C6_FirstUseRejectionPersistsNothing ==
    [][(/\ Verified'
        /\ call'.hostname \notin DOMAIN knownHosts
        /\ call'.hook = "OnFirstSeen"
        /\ ~call'.accept)
       => (/\ ret' = ErrRejectedByUser
           /\ call'.save = "none"
           /\ knownHosts' = knownHosts
           /\ file' = file
           /\ call'.hostname \notin DOMAIN knownHosts')]_vars

C6_Witness ==
    /\ Verified
    /\ call.path = "first"
    /\ call.hook = "OnFirstSeen"
    /\ ~call.accept
    /\ ret = ErrRejectedByUser
    /\ call.hostname \notin DOMAIN knownHosts

\* C7: when the presented fingerprint matches the stored one,
\* VerifyCertificate returns nil whatever the file write did, and the Get
\* that called it goes on to send its request.
C7_MatchNeverFails ==
    [][(/\ pc = "verify" /\ TOFU # Nil
        /\ Verified'
        /\ call'.hostname \in DOMAIN knownHosts
        /\ knownHosts[call'.hostname].Fingerprint = call'.cert)
       => (/\ ret' = Nil
           /\ pc' = "send"
           /\ err' = Nil
           /\ conns'[Len(conns')].verified)]_vars

C7_Witness ==
    /\ Verified
    /\ call.path = "match"
    /\ call.save = "torn"
    /\ ret = Nil
    /\ pc = "send"

\* C8: once VerifyCertificate has returned nil for a host, whose certificate
\* is then the one the map trusts, the file holds no record of that host with
\* another fingerprint (which a restarted process would load and match).
C8_NoStaleFingerprintInFile ==
    (Verified /\ ret = Nil)
        => ~(/\ file.kind = "json"
             /\ call.hostname \in DOMAIN file.hosts
             /\ file.hosts[call.hostname].fingerprint
                    # knownHosts[call.hostname].Fingerprint)

\* C9: after a first-use acceptance, an accepted change, RemoveCertificate or
\* ClearAll that returned nil, the file holds exactly the hosts of the map,
\* each with the map's fingerprint, trust and firstSeen.
TrustChanging ==
    \/ call.op \in {"Remove", "ClearAll"}
    \/ Verified /\ call.path \in {"first", "changed"}

C9_FileReconciledAfterMutation ==
    (TrustChanging /\ ret = Nil)
        => /\ file.kind = "json"
           /\ DOMAIN file.hosts = DOMAIN knownHosts
           /\ \A h \in DOMAIN knownHosts : FileHolds(h)

C9_Witness ==
    /\ call.op = "Remove"
    /\ ret = Nil
    /\ call.hostname \notin DOMAIN knownHosts
    /\ DOMAIN knownHosts # {}
    /\ \A h \in DOMAIN knownHosts : FileHolds(h)

\* C10: a Get makes at most c.MaxRedirects + 1 fetches; a Success read after
\* k redirects is returned (and then k <= c.MaxRedirects); too many redirects
\* is the error exactly when c.MaxRedirects + 1 responses, all of them
\* redirects, were read.  With the default of 5, five redirects and a Success
\* on the sixth fetch succeed and six redirects fail.
AllRedirects(seq) == \A i \in 1..Len(seq) : IsRedirect(seq[i])

C10_RedirectBudget ==
    /\ Len(conns) <= cMaxRedirects + 1
    /\ Len(responses) <= cMaxRedirects + 1
    /\ (pc = "done" /\ responses # << >> /\ IsSuccess(responses[Len(responses)]))
         => /\ err = Nil
            /\ resp.Status = responses[Len(responses)]
            /\ resp.Body
            /\ AllRedirects(SubSeq(responses, 1, Len(responses) - 1))
            /\ Len(responses) - 1 <= cMaxRedirects
    /\ (/\ pc = "done" /\ FollowRedirects
        /\ Len(responses) = cMaxRedirects + 1 /\ AllRedirects(responses))
         => err = ErrTooManyRedirects /\ resp = NoResponse
    /\ err = ErrTooManyRedirects
         => Len(responses) = cMaxRedirects + 1 /\ AllRedirects(responses)

C10_Witness ==
    /\ cMaxRedirects = MaxRedirects
    /\ pc = "done"
    /\ Len(conns) = MaxRedirects + 1
    /\ Len(responses) = MaxRedirects + 1
    /\ IsSuccess(responses[MaxRedirects + 1])
    /\ err = Nil
    /\ resp.Body

OpenConns == {i \in 1..Len(conns) : conns[i].open}

\* C11: a redirecting connection is closed before the connection for the
\* redirect target is opened, so at every moment of a Get at most one of the
\* connections it opened is open, and that one is the latest.
C11_AtMostOneOpenConnection ==
    /\ Cardinality(OpenConns) <= 1
    /\ OpenConns \subseteq {Len(conns)}

C11_Witness ==
    /\ Len(conns) = 2
    /\ Len(responses) = 1
    /\ IsRedirect(responses[1])
    /\ ~conns[1].open
    /\ conns[2].open

\* C12: when Get returns a response that is neither a success nor a redirect,
\* the connection is already closed and the response carries no body.
C12_NonSuccessClosedNoBody ==
    (/\ pc = "done"
     /\ err = Nil
     /\ ~IsSuccess(resp.Status)
     /\ ~IsRedirect(resp.Status))
    => (/\ OpenConns = {}
        /\ ~resp.Body)

C12_Witness ==
    /\ pc = "done"
    /\ err = Nil
    /\ resp.Status = 51
    /\ Len(conns) = 1
    /\ conns[1].sent
    /\ ~conns[1].open
    /\ ~resp.Body

\* the caller has closed the response Get handed over
ResponseClosed == pc = "done" /\ err = Nil /\ (body.op = "Close" \/ body.closed)

\* C13: a success is returned with its connection open, and Response.Close()
\* (or ReadBody, which closes the body) releases that connection: once the
\* caller has closed the response, no connection of the Get is open.
C13_CloseReleasesConnection ==
    /\ (pc = "done" /\ err = Nil /\ IsSuccess(resp.Status) /\ body = Untouched)
       => OpenConns = {Len(conns)}
    /\ ResponseClosed => OpenConns = {}

\* C14: a response has a body exactly when its status is a success; ReadBody
\* on a response without a body fails with the no-body error and reads nothing.
C14_BodyIffSuccess ==
    /\ (pc = "done" /\ err = Nil) => (resp.Body <=> IsSuccess(resp.Status))
    /\ (pc = "done" /\ err = Nil /\ body.op = "ReadBody" /\ ~resp.Body)
       => (body.err = ErrNoBody /\ ~body.read /\ ~body.closed)
    /\ body.err = ErrNoBody => ~IsSuccess(resp.Status)

C14_Witness ==
    /\ pc = "done"
    /\ err = Nil
    /\ resp.Status = 51
    /\ body.op = "ReadBody"
    /\ body.err = ErrNoBody
    /\ ~body.read

\* the line without its terminator: the trailing CR and LF bytes taken off
RECURSIVE Unterminated(_)
Unterminated(l) ==
    IF l = << >> THEN l
    ELSE IF l[Len(l)].ch = CR \/ l[Len(l)].ch = LF
    THEN Unterminated(SubSeq(l, 1, Len(l) - 1))
    ELSE l

HasSpace(l) == \E i \in 1..Len(Unterminated(l)) : Unterminated(l)[i].ch = SP

\* the text before the first space (the whole text when there is none)
StatusToken(l) ==
    LET u == Unterminated(l) IN
    IF \E i \in 1..Len(u) : u[i].ch = SP
    THEN SubSeq(u, 1, (CHOOSE i \in 1..Len(u) :
                          u[i].ch = SP /\ \A j \in 1..(i - 1) : u[j].ch # SP) - 1)
    ELSE u

\* the text after the first space
MetaText(l) ==
    LET u == Unterminated(l)
        k == Len(StatusToken(l)) + 1
    IN SubSeq(u, k + 1, Len(u))

TokenValue(tok) == 10 * DigitValue(tok[1].ch) + DigitValue(tok[2].ch)

ValidStatusToken(tok) ==
    /\ Len(tok) = 2
    /\ \A i \in 1..2 : tok[i].n = 1 /\ tok[i].ch \in DigitChars
    /\ TokenValue(tok) >= 10
    /\ TokenValue(tok) <= 69

MalformedHeader == {ErrStatusLength, ErrStatusInvalid, ErrStatusRange}

\* the decoder got as far as parsing the line
HeaderParsed == header.via # "none" /\ header.err # ErrReadHeader

\* C15: a header is accepted only when its status token is exactly two ASCII
\* digits with a value in 10..69, and that value is then the status; every
\* other token (other length, a non-digit such as a sign, a value out of
\* range) fails as a malformed header.
C15_StatusTokenTwoDigitsInRange ==
    HeaderParsed =>
        IF ValidStatusToken(StatusToken(line))
        THEN /\ header.err \in {Nil, ErrMetaTooLong}
             /\ header.err = Nil => header.Status = TokenValue(StatusToken(line))
        ELSE header.err \in MalformedHeader

C15_Witness ==
    /\ HeaderParsed
    /\ StatusToken(line) = Str(<<"+", "9">>)
    /\ HasSpace(line)
    /\ header.err = ErrStatusRange

\* C16: with a valid status token, the meta is everything after the first
\* space with the terminating CR and LF stripped; up to 1024 bytes it is
\* returned unchanged, from 1025 bytes on the header fails as too long, so no
\* parsed header carries a meta of more than 1024 bytes.
C16_MetaAfterFirstSpaceAtMost1024 ==
    /\ (HeaderParsed /\ HasSpace(line) /\ ValidStatusToken(StatusToken(line)))
       => IF StrLen(MetaText(line)) <= 1024
          THEN header.err = Nil /\ header.Meta = MetaText(line)
          ELSE header.err = ErrMetaTooLong
    /\ StrLen(header.Meta) <= 1024

C16_Witness ==
    /\ HeaderParsed
    /\ ValidStatusToken(StatusToken(line))
    /\ StrLen(MetaText(line)) = 1025
    /\ header.err = ErrMetaTooLong

\* C17: a header line without a space is not refused for that: the whole
\* line without its terminator is the status token, and when that is a valid
\* status the header parses with an empty meta.
C17_NoSpaceLenient ==
    (HeaderParsed /\ ~HasSpace(line))
    => IF ValidStatusToken(Unterminated(line))
       THEN /\ header.err = Nil
            /\ header.Status = TokenValue(Unterminated(line))
            /\ header.Meta = << >>
       ELSE header.err \in MalformedHeader

C17_Witness ==
    /\ HeaderParsed
    /\ line = Str(<<"1", "0", CR, LF>>)
    /\ header.err = Nil
    /\ header.Status = 10
    /\ header.Meta = << >>

CategoryPredicates ==
    {"IsInput", "IsSuccess", "IsRedirect", "IsTemporaryFailure",
     "IsPermanentFailure", "IsClientCertificate"}

\* C18: for every code in 10..69, named or not, Category is the tens digit
\* and exactly one of the six category predicates is true; IsError is true
\* exactly for the codes 40..59.
C18_CategoryIsTensDigit ==
    class # NotClassified =>
        /\ statusCode \in 10..69 =>
            /\ \E tens \in 1..6, units \in 0..9 :
                   statusCode = 10 * tens + units /\ class.Category = tens
            /\ Cardinality({p \in CategoryPredicates : class[p]}) = 1
        /\ class.IsError <=> statusCode \in 40..59

C18_Witness ==
    /\ statusCode = 47
    /\ class # NotClassified
    /\ class.Category = 4
    /\ class.IsTemporaryFailure
    /\ class.IsError
    /\ ~class.IsPermanentFailure

\* both goroutines verify, for two different hosts
TwoHostsVerified ==
    /\ DOMAIN thr = Threads
    /\ \A t \in Threads : thr[t].op = "Verify" /\ thr[t].cert # NoCert
    /\ thr["g1"].hostname # thr["g2"].hostname

AllReturned == DOMAIN thr = Threads /\ \A t \in Threads : thr[t].pc = "done"

\* both were first use, were accepted and returned nil
BothAcceptedFirstUse ==
    /\ TwoHostsVerified
    /\ AllReturned
    /\ \A t \in Threads : thr[t].path = "first" /\ thr[t].ret = Nil

BothRecorded ==
    \A t \in Threads :
        /\ thr[t].hostname \in DOMAIN knownHosts
        /\ knownHosts[thr[t].hostname].Fingerprint = thr[t].cert
        /\ FileHolds(thr[t].hostname)

\* C19: two concurrent first-use verifications of two different hosts never
\* block each other for good: both calls return, in whichever order they take
\* the lock, and when both were accepted and returned nil both records are in
\* the map and in the file.
C19_TwoHostsNoDeadlock ==
    /\ [](BothAcceptedFirstUse => BothRecorded)
    /\ TwoHostsVerified ~> AllReturned

C19_Witness ==
    /\ BothAcceptedFirstUse
    /\ BothRecorded
    /\ knownHosts["a.example"].LastSeen.wall > knownHosts["b.example"].LastSeen.wall

\* C20: whatever the interleaving of VerifyCertificate, Save,
\* RemoveCertificate and ClearAll calls, at most one goroutine at a time is
\* writing the trust-store file.
C20_OneWriterAtATime == Cardinality(Writers) <= 1

\* the file holds exactly the marshalled map hosts
FileIs(f, hosts) == f = FileJSON(MarshalIndent(hosts))

\* C21: RemoveCertificate(h) and ClearAll write the file before they return
\* and return the I/O error of a failed write; RemoveCertificate(h) removes h
\* and leaves every other record as it was, so that the next verification of
\* h takes the first-use path; ClearAll leaves no record.
C21_RemoveAndClearAll ==
    [][/\ call'.op = "Remove" =>
            /\ DOMAIN knownHosts' = DOMAIN knownHosts \ {call'.hostname}
            /\ \A h \in DOMAIN knownHosts' : knownHosts'[h] = knownHosts[h]
            /\ call'.save \in WriteOutcomes
            /\ ret' = (IF call'.save = "ok" THEN Nil ELSE ErrIO)
            /\ ret' = Nil => FileIs(file', knownHosts')
       /\ call'.op = "ClearAll" =>
            /\ knownHosts' = EmptyHosts
            /\ call'.save \in WriteOutcomes
            /\ ret' = (IF call'.save = "ok" THEN Nil ELSE ErrIO)
            /\ ret' = Nil => FileIs(file', EmptyHosts)
       /\ (/\ call.op \in {"Remove", "ClearAll"}
           /\ Verified'
           /\ call.op = "Remove" => call'.hostname = call.hostname)
          => call'.path = "first"]_vars

C21_Witness ==
    /\ call.op = "Remove"
    /\ call.hostname = "a.example"
    /\ ret = Nil
    /\ DOMAIN knownHosts = {"b.example"}
    /\ FileIs(file, knownHosts)

\* C22: a record is created only by a successful first verification of its
\* host, and once a host has a record no VerifyCertificate call removes it:
\* a record disappears only through RemoveCertificate or ClearAll.  (The map
\* is keyed by hostname: at most one record per host.)
C22_RecordsCreatedAndRemoved ==
    [][call'.op # "New" =>
        \A h \in Hostnames :
            /\ (h \notin DOMAIN knownHosts /\ h \in DOMAIN knownHosts')
               => (/\ Verified'
                   /\ call'.hostname = h
                   /\ call'.path = "first"
                   /\ ret' = Nil)
            /\ (h \in DOMAIN knownHosts /\ h \notin DOMAIN knownHosts')
               => call'.op \in {"Remove", "ClearAll"}]_vars

\* C23: VerifyCertificate on a connection state without peer certificates
\* fails with the no-peer-certificate error before any trust logic: no hook
\* is invoked, the map is unchanged and the file is not written.
C23_NoPeerCertificate ==
    [][(call'.op = "Verify" /\ call'.cert = NoCert)
       => (/\ ret' = ErrNoPeerCertificates
           /\ call'.hook = "none"
           /\ call'.save = "none"
           /\ knownHosts' = knownHosts
           /\ file' = file)]_vars

C23_Witness ==
    /\ call.op = "Verify"
    /\ call.cert = NoCert
    /\ call.hostname \in DOMAIN knownHosts
    /\ file.kind = "json"
    /\ OnFirstSeen # Nil
    /\ ret = ErrNoPeerCertificates

\* the step in which ReadResponse returns a header
ReadsHeader == pc = "read" /\ Len(responses') = Len(responses) + 1

\* the step in which get() calls itself for the redirect's target
Hops == ReadsHeader /\ pc' = "dial"

\* C24: a get frame whose URL has another scheme than gemini, be it the URL
\* given to Get or the resolved target of a redirect, returns
\* UnsupportedScheme without dialling: the connections are those of the
\* earlier hops, one each, all closed, and none is added.
C24_UnsupportedScheme ==
    [][(pc = "dial" /\ rawURL # BadURL /\ rawURL.scheme # "gemini")
       => (/\ pc' = "done"
           /\ err' = ErrUnsupportedScheme
           /\ resp' = NoResponse
           /\ conns' = conns
           /\ Len(conns) = redirectCount
           /\ OpenConns = {})]_vars

C24_Witness ==
    /\ pc = "done"
    /\ err = ErrUnsupportedScheme
    /\ rawURL.scheme = "https"
    /\ redirectCount = 1
    /\ received.Meta.kind = "abs"
    /\ Len(conns) = 1

\* C25: when redirects are followed, a redirect whose meta is empty makes Get
\* fail with "redirect without URL", and no further connection is opened.
C25_EmptyRedirectTarget ==
    [][(/\ ReadsHeader
        /\ FollowRedirects
        /\ IsRedirect(received'.Status)
        /\ received'.Meta = NoMeta)
       => (/\ pc' = "done"
           /\ err' = ErrRedirectWithoutURL
           /\ resp' = NoResponse
           /\ Len(conns') = Len(conns))]_vars

\* C25 as the code has it: the redirect limit is tested before the target,
\* so the empty meta is reported while redirectCount is below c.MaxRedirects,
\* and at the limit the error is "too many redirects"; either way Get
\* returns without opening a further connection.
C25_EmptyRedirectTargetBelowLimit ==
    [][(/\ ReadsHeader
        /\ FollowRedirects
        /\ IsRedirect(received'.Status)
        /\ received'.Meta = NoMeta)
       => (/\ pc' = "done"
           /\ err' = IF redirectCount < cMaxRedirects
                     THEN ErrRedirectWithoutURL
                     ELSE ErrTooManyRedirects
           /\ resp' = NoResponse
           /\ Len(conns') = Len(conns)
           /\ OpenConns' = {})]_vars

C25_Witness ==
    /\ pc = "done"
    /\ FollowRedirects
    /\ err = ErrRedirectWithoutURL
    /\ IsRedirect(received.Status)
    /\ received.Meta = NoMeta
    /\ redirectCount = 1
    /\ cMaxRedirects = 2

\* C26: with c.FollowRedirects false, a redirect is returned as it was
\* received: its status and meta, no body, the URL requested, no error; the
\* connection is closed and it is the only one, whatever c.MaxRedirects is
\* and whatever the meta holds.
C26_RedirectsNotFollowed ==
    [][(ReadsHeader /\ ~FollowRedirects /\ IsRedirect(received'.Status))
       => (/\ pc' = "done"
           /\ err' = Nil
           /\ resp'.Status = received'.Status
           /\ resp'.Meta = received'.Meta
           /\ ~resp'.Body
           /\ resp'.URL = rawURL
           /\ Len(conns') = 1
           /\ ~conns'[1].open
           /\ Len(responses') = 1
           /\ redirectCount' = 0)]_vars

C26_Witness ==
    /\ pc = "done"
    /\ ~FollowRedirects
    /\ cMaxRedirects = 0
    /\ err = Nil
    /\ IsRedirect(resp.Status)
    /\ resp.Meta = BadRef
    /\ Len(conns) = 1

\* C27: the target of a followed redirect is the meta itself when it is
\* absolute, and otherwise the URL of the frame that received it with the
\* meta's path; each followed redirect adds exactly one to redirectCount and
\* nothing else changes it within a Get; the response returned carries the
\* URL of the last frame.
C27_RedirectResolution ==
    [][/\ Hops
          => /\ received'.Meta.kind \in {"abs", "path"}
             /\ received'.Meta.kind = "abs" => rawURL' = received'.Meta.url
             /\ received'.Meta.kind = "path"
                  => rawURL' = URL(rawURL.scheme, rawURL.host, received'.Meta.url.path)
             /\ redirectCount' = redirectCount + 1
       /\ (~Hops /\ pc \notin {"idle", "done"})
          => rawURL' = rawURL /\ redirectCount' = redirectCount
       /\ (ReadsHeader /\ pc' = "done" /\ err' = Nil)
          => resp'.URL = rawURL]_vars

C27_Witness ==
    /\ pc = "dial"
    /\ redirectCount = 2
    /\ received.Meta.kind = "path"
    /\ rawURL.host # firstURL.host
    /\ rawURL.path # firstURL.path
    /\ rawURL.path = received.Meta.url.path

\* the call verifies a certificate whose fingerprint is the one on record
MatchesRecord ==
    /\ Verified'
    /\ call'.hostname \in DOMAIN knownHosts
    /\ knownHosts[call'.hostname].Fingerprint = call'.cert

\* C28: a certificate accepted with trust Once prompts again: the next
\* verification of the host with the same certificate does not pass silently
\* on the fingerprint-match path, a decision hook is asked.
C28_OncePromptsAgain ==
    [][(MatchesRecord /\ knownHosts[call'.hostname].Trust = TrustOnce)
       => (call'.path # "match" /\ call'.hook # "none")]_vars

\* C29: a certificate accepted with trust Session is trusted for that
\* session only: in a verifier built anew from the file, its host is not
\* accepted on the fingerprint-match path on the strength of that record.
C29_SessionEndsAtRestart ==
    [][(/\ call.op = "New"
        /\ MatchesRecord
        /\ knownHosts[call'.hostname].Trust = TrustSession)
       => call'.path # "match"]_vars

\* two records that agree on fingerprint, trust and the two instants
SameRecord(a, b) ==
    /\ a.Fingerprint = b.Fingerprint
    /\ a.Trust = b.Trust
    /\ a.FirstSeen.wall = b.FirstSeen.wall
    /\ a.LastSeen.wall = b.LastSeen.wall

C31_MissingAndMalformedFile ==
    [][/\ (call'.op = "New" /\ file.kind = "missing")
          => /\ verifier' = "ok"
             /\ ret' = Nil
             /\ knownHosts' = EmptyHosts
             /\ file' = FileMissing
       /\ (call.op = "New" /\ file.kind = "missing" /\ Verified')
          => call'.path = "first"
       /\ (file.kind = "missing" /\ file'.kind # "missing")
          => /\ call'.op \in {"Verify", "Remove", "ClearAll", "Save"}
             /\ call'.save \in {"ok", "torn"}
       /\ (call'.op = "New" /\ file.kind = "torn")
          => /\ verifier' = Nil
             /\ ret' = ErrLoad]_vars

C31_Witness ==
    /\ call.op = "New"
    /\ file = FileMissing
    /\ verifier = "ok"
    /\ knownHosts = EmptyHosts
    /\ clock > 0

\* C34: whenever Get has returned an error, none of the connections it
\* opened is open.
C34_NoConnectionLeftOpenOnError ==
    (pc = "done" /\ err # Nil) => OpenConns = {}

\* C35: a VerifyCertificate that returns an error leaves the map as it was
\* before the call.
C35_ErrorLeavesStoreUnchanged ==
    [][(call'.op = "Verify" /\ ret' # Nil) => knownHosts' = knownHosts]_vars

\* C36: the options given to Request hold for that request only: no step of
\* a client, Request included, changes c.FollowRedirects.
C36_OptionsAreLocal ==
    [][FollowRedirects' = FollowRedirects]_vars

\* both goroutines verify the same host, which has no record when they
\* start, with two different certificates, and no hook is installed
SameHostRace ==
    /\ OnFirstSeen = Nil
    /\ OnCertificateChange = Nil
    /\ DOMAIN thr = Threads
    /\ \A t \in Threads : thr[t].op = "Verify" /\ thr[t].cert # NoCert
    /\ thr["g1"].hostname = thr["g2"].hostname
    /\ thr["g1"].cert # thr["g2"].cert

\* the goroutines between v.mu.Lock() and the deferred Unlock
UnderLock == {t \in DOMAIN thr : thr[t].pc \in {"locked", "save", "writing"}}

\* goroutine t was accepted and u refused, and t's fingerprint is on record
WonOver(t, u) ==
    /\ thr[t].ret = Nil
    /\ thr[u].ret = ErrChangedRejected
    /\ thr[t].hostname \in DOMAIN knownHosts
    /\ knownHosts[thr[t].hostname].Fingerprint = thr[t].cert
    /\ FileHolds(thr[t].hostname)

VerifyStarted == \E t \in DOMAIN thr : thr[t].op = "Verify"

\* every VerifyCertificate that has started has returned
VerifyReturned ==
    \A t \in DOMAIN thr : thr[t].op = "Verify" => thr[t].pc = "done"

\* C38: every VerifyCertificate returns, also when its decision hook calls
\* GetCertificateInfo, RemoveCertificate or Save on the same verifier, and no
\* other verification waits for ever behind it.
C38_VerifyTerminates == VerifyStarted ~> VerifyReturned

\* a line that starts with three backticks
IsFence(raw) ==
    Len(raw) >= 3 /\ raw[1] = Backtick /\ raw[2] = Backtick /\ raw[3] = Backtick

\* the number of fences among the first n lines of the document
Fences(n) == Cardinality({j \in 1..n : IsFence(doc.Lines[j].Raw)})

\* line i lies after an opening fence and before the next fence
InsideBlock(i) == Fences(i - 1) % 2 = 1

\* the type the prefix of a line stands for outside a preformatted block
PrefixType(raw) ==
    CASE HasPrefix(raw, <<"=", ">">>) -> LineTypeLink
      [] HasPrefix(raw, <<"#", "#", "#">>) -> LineTypeHeading3
      [] HasPrefix(raw, <<"#", "#">>) /\ ~HasPrefix(raw, <<"#", "#", "#">>)
            -> LineTypeHeading2
      [] HasPrefix(raw, <<"#">>) /\ ~HasPrefix(raw, <<"#", "#">>) -> LineTypeHeading1
      [] HasPrefix(raw, <<"*", " ">>) -> LineTypeListItem
      [] HasPrefix(raw, <<">">>) -> LineTypeQuote
      [] OTHER -> LineTypeText

\* C33: the lines that start with three backticks, and only they, are
\* PreformatToggle lines, and each flips the preformatted mode; a line
\* between an opening fence and the next fence is Preformatted and its text
\* is the raw line, whatever it starts with; a line outside a block has the
\* type of its prefix; an opening fence carries its alt text.
C33_PreformatToggling ==
    /\ inPreformat <=> (Fences(Len(doc.Lines)) % 2 = 1)
    /\ \A i \in 1..Len(doc.Lines) :
        LET l == doc.Lines[i] IN
        /\ IsFence(l.Raw) <=> l.Type = LineTypePreformatToggle
        /\ (IsFence(l.Raw) /\ ~InsideBlock(i))
             => l.AltText = TrimSpace(SubSeq(l.Raw, 4, Len(l.Raw)))
        /\ (~IsFence(l.Raw) /\ InsideBlock(i))
             => l.Type = LineTypePreformatted /\ l.Text = l.Raw
        /\ (~IsFence(l.Raw) /\ ~InsideBlock(i)) => l.Type = PrefixType(l.Raw)

C33_Witness ==
    /\ Len(doc.Lines) = 3
    /\ doc.Lines[1].Type = LineTypePreformatToggle
    /\ doc.Lines[1].AltText = <<"g">>
    /\ doc.Lines[2].Raw = <<"=", ">", " ", "u", " ", "l">>
    /\ doc.Lines[2].Type = LineTypePreformatted
    /\ doc.Lines[2].Text = doc.Lines[2].Raw
    /\ doc.Lines[3].Type = LineTypePreformatToggle
    /\ ~inPreformat
    /\ doc.Links = << >>

----------------------------------------------------------------------------
(* Browser *)

HistoryIndexInBounds ==
    /\ model.historyPos >= -1
    /\ model.historyPos < Len(model.history) \/ model.historyPos = -1

\* the load of url was started in this step
Reloads(url) == cmds' = Append(cmds, url)

\* C32: after page X has been loaded (the start URL included) and the user
\* has gone to page Y, the Back key makes X the current URL again and
\* reloads it, a following Forward key makes Y current again, and the
\* history index always stays within the bounds of the history list.
C32_BackAndForward ==
    /\ [][(user.stage = 1 /\ user'.key = "back")
            => (model'.currentURL = user.X /\ Reloads(user.X))]_vars
    /\ [][(user.stage = 2 /\ user'.key = "forward")
            => model'.currentURL = user.Y]_vars
    /\ []HistoryIndexInBounds

\* C39: when B is requested while A is in flight, once both loads have
\* completed the document shown is the one fetched for the current URL B and
\* the model is not loading, in whatever order the answers came; and the
\* model is never marked as not loading while the load of the current URL
\* is in flight.
C39_ConcurrentLoads ==
    /\ (race.on /\ race.ok /\ cmds = << >>)
        => /\ model.currentURL = race.B
           /\ model.document = race.B
           /\ ~model.loading
    /\ (\E i \in DOMAIN cmds : cmds[i] = model.currentURL) => model.loading

====
